---- MODULE Spec2Model ----
(***************************************************************************)
(* A model of the DrTrack data collector (drtrack_data_collector):         *)
(*   - the task partitioner  (common/utils.py, common/gcs_client.py)       *)
(*   - the batch dispatcher  (processors/base_processor.py, doctor_info.py,*)
(*                            outpatient.py, doctor_info_validation.py)    *)
(*   - the validation response decoder (doctor_info_validation.py)         *)
(*   - the record deduplicator and the fake-name filters (doctor_info.py,  *)
(*     ai_client_simple.py, ai_client_outpatient_simple.py, outpatient.py) *)
(*   - the site crawler (processors/url_collector.py)                      *)
(* Each component has its own specification (SpecPartition, SpecDispatch,  *)
(* ...) over its own variables; the variables of the other components stay *)
(* at their idle values.                                                   *)
(***************************************************************************)
EXTENDS Integers, Sequences, FiniteSets, TLC

VARIABLES
    \* ---- task partitioner ----
    total_items,    \* len(df): number of input rows
    task_count,     \* config.task_count
    task_index,     \* the next task index whose range is computed
    chunks,         \* chunks[i+1] = calculate_chunk_range(total, i, task_count)
    slices,         \* slices[i+1] = row indices of get_task_data(df) of task i
    \* ---- batch dispatcher ----
    job_type,                 \* which processor dispatches the batch
    max_concurrent_requests,  \* config.max_concurrent_requests
    batch_items,              \* the items of the batch, in batch order
    sem_value,                \* asyncio.Semaphore._value
    task_pc,                  \* per item task: "pending", "fetching", "done"
    task_try,                 \* outpatient: index of the processor being tried
    task_result,              \* per item task: what the coroutine returned/raised
    completed,                \* item positions in the order the tasks completed
    gathered,                 \* TRUE once the loop over the gather results ran
    stats,                    \* BaseProcessor.stats
    failed_items,             \* BaseProcessor.failed_items (key -> error message)
    all_records,              \* self.all_records
    validation_stats,         \* DoctorInfoValidationProcessor.validation_stats
    \* ---- validation response decoder ----
    response_text,      \* the raw response text handed to _parse_ai_response_robust
    dec_pc,             \* the stage _parse_ai_response_robust is about to try
    dec_trace,          \* the stages tried so far (one log line per stage)
    parsing_attempts,   \* the local list parsing_attempts
    dec_result,         \* the ValidationResult returned
    \* ---- DoctorInfoProcessor._remove_duplicate_records ----
    dd_records,         \* the argument records
    dd_pc,              \* "call" before the call, "returned" after it
    dd_result,          \* the list returned
    \* ---- record extraction of one item (doctor_info, outpatient) ----
    ex_job,             \* the job type of the processor
    ex_html,            \* the preprocessed page content
    ex_response,        \* the rows of the AI response
    ex_pc,              \* the position in _process_single_url_async
    ex_records,         \* the records in hand, at last the records returned
    \* ---- UrlCollectorProcessor._crawl_facility_async ----
    cr_site,                  \* the web site: what a fetch of a URL can return
    base_url,                 \* the seed URL of the facility
    max_depth,                \* self.max_depth
    max_pages_per_facility,   \* self.max_pages_per_facility
    url_queue,                \* the list of (url, depth) pairs
    visited_urls,
    found_urls,
    page_count,
    cr_pc,                    \* "loop" in the while loop, "done" after the return
    fetch_log,                \* the (url, depth) pairs fetch_html_async was awaited for
    \* ---- one run of main(): Config, BaseProcessor.run_async, run() ----
    env,                \* the environment variables Config.from_env reads
    run_pc,             \* the position in main / run / run_async
    task_df,            \* the rows of the task (get_task_data), as items
    batch_start,        \* the loop variable i of process_data_async
    outcomes,           \* per processed row: how its processing ended
    save_attempted,     \* save_results was called
    saved_records,      \* the rows upload_tsv wrote
    final_stats_logged, \* the final statistics were logged
    run_error,          \* the call whose exception ends the run, "none" if none
    interrupted,        \* KeyboardInterrupt was raised
    exit_code,          \* what main returned, -1 before it returns
    \* ---- one remote extraction call (process_with_ai) ----
    ai_client,          \* the class of the client that makes the call
    max_retries,        \* config.max_retries
    ai_pc,              \* "call", "waiting", "returned" or "raised"
    ai_attempts,        \* how each attempt of the call ended, in order
    ai_records,         \* the records process_with_ai returned
    failure_reason,     \* the reason code url_collector recorded, "none" if none
    \* ---- the failure statistics of a url_collect run and its alerts ----
    st_pc,              \* "classify", "finally" or "done"
    stat_rows,          \* the number of facilities of the shard
    progress_current,   \* progress.current: the facilities processed
    urls_left,          \* URLs of the current facility still to classify
    total_processed,    \* ProcessingStatistics.total_processed
    ai_success_count,   \* ProcessingStatistics.ai_success_count
    ai_failure_count,   \* ProcessingStatistics.ai_failure_count
    threshold_pct,      \* config.failure_rate_alert_threshold, in percent
    alert_log,          \* the HIGH_AI_FAILURE_RATE alerts logged, in order
    \* ---- the records of a doctor_info run, from its pages to the TSV ----
    fin_items,          \* the items of the shard: facility, URL, page records
    fin_index,          \* the index of the next item to process
    fin_records,        \* self.all_records
    fin_saved,          \* the rows upload_tsv wrote
    fin_pc,             \* "items" or "saved"
    \* ---- the origin of the ids of the records of one item ----
    og_job,             \* "url_collect", "doctor_info" or "outpatient"
    og_item,            \* the item: fac_id_unif and url of the input row
    og_response,        \* the rows of the AI response, with the ids it names
    og_pc,              \* "call", "parsed" or "returned"
    og_records,         \* the records produced for the item
    og_failures,        \* the FailureRecords produced for the item
    \* ---- calls of UnifiedAIClient._call_ai_api, each with its thread ----
    ca_service,         \* per call: what generate_content does in the thread
    ca_thread,          \* per call: "running" or "finished"
    ca_result,          \* per call: the dict result the thread writes
    ca_deadline_passed, \* per call: ai_timeout seconds have passed
    ca_in_time,         \* per call: the thread finished before the deadline
    ca_pc,              \* per call: "polling", "checking" or "done"
    ca_outcome,         \* per call: what _call_ai_api returned or raised
    \* ---- UnifiedAIClient._create_record_from_fields of doctor_info ----
    rf_fields,          \* the fields of one line of the response
    rf_result,          \* the record, None or the exception of the call
    rf_pc               \* "ready" or "done"

partVars == <<total_items, task_count, task_index, chunks, slices>>

dispVars == <<job_type, max_concurrent_requests, batch_items, sem_value,
              task_pc, task_try, task_result, completed, gathered, stats,
              failed_items, all_records, validation_stats>>

\* the dispatcher's variables but validation_stats, which the decoder updates
dispOnlyVars == <<job_type, max_concurrent_requests, batch_items, sem_value,
                  task_pc, task_try, task_result, completed, gathered, stats,
                  failed_items, all_records>>

decVars == <<response_text, dec_pc, dec_trace, parsing_attempts, dec_result>>

ddVars == <<dd_records, dd_pc, dd_result>>

exVars == <<ex_job, ex_html, ex_response, ex_pc, ex_records>>

crVars == <<cr_site, base_url, max_depth, max_pages_per_facility, url_queue,
            visited_urls, found_urls, page_count, cr_pc, fetch_log>>

runVars == <<env, run_pc, task_df, batch_start, outcomes, save_attempted,
             saved_records, final_stats_logged, run_error, interrupted,
             exit_code>>

aiVars == <<ai_client, max_retries, ai_pc, ai_attempts, ai_records,
            failure_reason>>

statVars == <<st_pc, stat_rows, progress_current, urls_left,
              total_processed, ai_success_count, ai_failure_count,
              threshold_pct, alert_log>>

finVars == <<fin_items, fin_index, fin_records, fin_saved, fin_pc>>

ogVars == <<og_job, og_item, og_response, og_pc, og_records, og_failures>>

caVars == <<ca_service, ca_thread, ca_result, ca_deadline_passed,
            ca_in_time, ca_pc, ca_outcome>>

rfVars == <<rf_fields, rf_result, rf_pc>>

vars == <<partVars, dispVars, decVars, ddVars, exVars, crVars, runVars,
          aiVars,
          statVars,
          finVars,
          ogVars,
          caVars,
          rfVars>>

\* what the steps of one component leave unchanged
notPartVars == <<dispVars, decVars, ddVars, exVars, crVars, runVars,
       aiVars,
       statVars,
       finVars,
       ogVars,
       caVars,
       rfVars>>

notDispVars == <<partVars, decVars, ddVars, exVars, crVars, runVars,
       aiVars,
       statVars,
       finVars,
       ogVars,
       caVars,
       rfVars>>

notDecVars == <<partVars, dispOnlyVars, ddVars, exVars, crVars, runVars,
       aiVars,
       statVars,
       finVars,
       ogVars,
       caVars,
       rfVars>>

notDdVars == <<partVars, dispVars, decVars, exVars, crVars, runVars,
       aiVars,
       statVars,
       finVars,
       ogVars,
       caVars,
       rfVars>>

notExVars == <<partVars, dispVars, decVars, ddVars, crVars, runVars,
       aiVars,
       statVars,
       finVars,
       ogVars,
       caVars,
       rfVars>>

notCrVars == <<partVars, dispVars, decVars, ddVars, exVars, runVars,
       aiVars,
       statVars,
       finVars,
       ogVars,
       caVars,
       rfVars>>

\* what a step of the run leaves unchanged besides the dispatcher's variables
notRunVars == <<partVars, decVars, ddVars, exVars, crVars,
       aiVars,
       statVars,
       finVars,
       ogVars,
       caVars,
       rfVars>>

notAiVars == <<partVars, dispVars, decVars, ddVars, exVars, crVars,
        runVars,
       statVars,
       finVars,
       ogVars,
       caVars,
       rfVars>>

notStatVars == <<partVars, dispVars, decVars, ddVars, exVars, crVars,
        runVars, aiVars,
       finVars,
       ogVars,
       caVars,
       rfVars>>

notFinVars == <<partVars, dispVars, decVars, ddVars, exVars, crVars,
        runVars, aiVars, statVars,
       ogVars,
       caVars,
       rfVars>>

notOgVars == <<partVars, dispVars, decVars, ddVars, exVars, crVars, runVars,
        aiVars, statVars, finVars,
       caVars,
       rfVars>>

notCaVars == <<partVars, dispVars, decVars, ddVars, exVars, crVars, runVars,
        aiVars, statVars, finVars, ogVars,
       rfVars>>

notRfVars == <<partVars, dispVars, decVars, ddVars, exVars, crVars, runVars,
        aiVars, statVars, finVars, ogVars, caVars>>

(***************************************************************************)
(* Generic helpers                                                         *)
(***************************************************************************)
Min(a, b) == IF a <= b THEN a ELSE b

Max(a, b) == IF a >= b THEN a ELSE b

Range(s) == {s[i] : i \in DOMAIN s}

(***************************************************************************)
(* Task partitioner                                                        *)
(***************************************************************************)
MaxTotal == 9

MaxTasks == 5

\* python's floor division and modulo for a positive divisor
FloorDiv(a, b) == a \div b

PyMod(a, b) == a % b

\* calculate_chunk_range without the min(task_index, remainder) offset
calculate_chunk_range_no_offset(total, index, count) ==
    IF total = 0 \/ count <= 0 THEN <<0, 0>>
    ELSE IF count = 1 THEN <<0, total>>
    ELSE LET chunk_size == FloorDiv(total, count)
             remainder  == PyMod(total, count)
             start_idx  == index * chunk_size
             end_idx    == start_idx + chunk_size
                           + (IF index < remainder THEN 1 ELSE 0)
         IN  <<start_idx, Min(end_idx, total)>>

\* utils.calculate_chunk_range(total_items, task_index, task_count)
calculate_chunk_range(total, index, count) ==
    IF total = 0 \/ count <= 0 THEN <<0, 0>>
    ELSE IF count = 1 THEN <<0, total>>
    ELSE LET chunk_size == FloorDiv(total, count)
             remainder  == PyMod(total, count)
             start_idx  == index * chunk_size + Min(index, remainder)
             end_idx    == start_idx + chunk_size
                           + (IF index < remainder THEN 1 ELSE 0)
         IN  <<start_idx, Min(end_idx, total)>>

\* df.iloc[start:end] on a frame of total rows: the row positions selected
\* (python slicing clamps both ends to the frame)
ILocSlice(total, start, end) ==
    {r \in 0..(total - 1) : start <= r /\ r < end}

\* UnifiedGCSClient.get_task_data(df): the row positions of the returned frame
get_task_data(total_rows, index, count) ==
    IF total_rows = 0 THEN {}
    ELSE IF count = 1 THEN ILocSlice(total_rows, 0, total_rows)
    ELSE LET chunk_size == FloorDiv(total_rows, count)
             remainder  == PyMod(total_rows, count)
             start_idx  == index * chunk_size + Min(index, remainder)
             end_idx    == start_idx + chunk_size
                           + (IF index < remainder THEN 1 ELSE 0)
         IN  ILocSlice(total_rows, start_idx, end_idx)

InitPartition ==
    /\ total_items \in 0..MaxTotal
    /\ task_count \in 1..MaxTasks
    /\ task_index = 0
    /\ chunks = <<>>
    /\ slices = <<>>

IdlePartition ==
    /\ total_items = 0
    /\ task_count = 1
    /\ task_index = 0
    /\ chunks = <<>>
    /\ slices = <<>>

\* task number task_index (one Cloud Run task) computes its share of the input
ComputeChunk ==
    /\ task_index < task_count
    /\ chunks' = Append(chunks,
                        calculate_chunk_range(total_items, task_index, task_count))
    /\ slices' = Append(slices,
                        get_task_data(total_items, task_index, task_count))
    /\ task_index' = task_index + 1
    /\ UNCHANGED <<total_items, task_count>>

\* python's a // b and a % b for a >= 0 and any b # 0 (the quotient is
\* rounded towards minus infinity, the remainder has the sign of b)
PyFloorDivAny(a, b) ==
    IF b > 0 THEN a \div b ELSE 0 - ((a + (0 - b) - 1) \div (0 - b))

PyModAny(a, b) == a - b * PyFloorDivAny(a, b)

\* df.iloc[start:end] for any integers: a negative position counts from the
\* end of the frame, and both ends are clamped to the frame
ILocSliceAny(total, start, end) ==
    LET norm(x) == IF x < 0 THEN Max(x + total, 0) ELSE Min(x, total)
    IN  {r \in 0..(total - 1) : norm(start) <= r /\ r < norm(end)}

Returned(value) == [kind |-> "returned", value |-> value]

Raised(error) == [kind |-> "raised", error |-> error]

\* a call of utils.calculate_chunk_range with any arguments: what it returns
\* or raises.  No branch raises: task_count <= 0 returns (0, 0) and the
\* divisions are by a task_count of at least 2.
calculate_chunk_range_call(total, index, count) ==
    Returned(calculate_chunk_range(total, index, count))

\* a call of UnifiedGCSClient.get_task_data with any task_index and
\* task_count: the row positions it returns, or the ZeroDivisionError of
\* total_rows // 0
get_task_data_call(total_rows, index, count) ==
    IF total_rows = 0 THEN Returned({})
    ELSE IF count = 1 THEN Returned(ILocSliceAny(total_rows, 0, total_rows))
    ELSE IF count = 0 THEN Raised("ZeroDivisionError")
    ELSE LET chunk_size == PyFloorDivAny(total_rows, count)
             remainder  == PyModAny(total_rows, count)
             start_idx  == index * chunk_size + Min(index, remainder)
             end_idx    == start_idx + chunk_size
                           + (IF index < remainder THEN 1 ELSE 0)
         IN  Returned(ILocSliceAny(total_rows, start_idx, end_idx))

\* the partition is called with any task index and task count
InitPartitionCall ==
    /\ total_items \in 0..MaxTotal
    /\ task_count \in (0 - 2)..MaxTasks
    /\ task_index \in 0..MaxTasks
    /\ chunks = <<>>
    /\ slices = <<>>

\* one call of calculate_chunk_range and of get_task_data: chunks and slices
\* hold what the call returned or raised
CallPartition ==
    /\ chunks = <<>>
    /\ chunks' = <<calculate_chunk_range_call(total_items, task_index, task_count)>>
    /\ slices' = <<get_task_data_call(total_items, task_index, task_count)>>
    /\ UNCHANGED <<total_items, task_count, task_index>>

(***************************************************************************)
(* URLs.  A URL is the record urllib.parse.urlparse makes of it: scheme,   *)
(* netloc and path; the empty string is the record of three empty parts.   *)
(***************************************************************************)
Url(scheme, netloc, path) == [scheme |-> scheme, netloc |-> netloc, path |-> path]

EmptyUrl == Url("", "", "")

\* utils.validate_url(url)
validate_url(url) ==
    /\ url # EmptyUrl
    /\ url.scheme \in {"http", "https"}
    /\ url.netloc # ""

(***************************************************************************)
(* Batch dispatcher                                                        *)
(***************************************************************************)
MaxBatch == 3

MaxConcurrent == 2

JobTypes == {"base", "doctor_info", "outpatient", "doctor_info_validation"}

DispatchUrls == {Url("https", "h.example", "/a"), Url("ftp", "x", ""), EmptyUrl}

FacIds == <<"f1", "f2", "f3", "f4", "f5">>

\* the item built from a row of the batch (doctor_info.py 57-61)
BatchItem(i, url) == [fac_id_unif |-> FacIds[i], url |-> url]

\* the number of processors _process_single_url_async of outpatient tries
NumModalProcessors == 3

StatusValues == {"VALID", "PARTIAL", "INVALID", "NOTFOUND", "OTHER"}

NoResult == [kind |-> "none"]

ExcResult(msg) == [kind |-> "exception", msg |-> msg]

ListResult(records) == [kind |-> "list", records |-> records]

OtherResult == [kind |-> "other"]

\* a record extracted for an item: the ids come from the item's context
ExtractedRecord(item, n) ==
    [fac_id_unif |-> item.fac_id_unif, url |-> item.url, output_order |-> n]

ExtractedRecords(item, n) == [k \in 1..n |-> ExtractedRecord(item, k)]

\* DoctorInfoValidationProcessor._create_error_result: the record
ErrorResultRecord(item, msg) ==
    [fac_id_unif |-> item.fac_id_unif, url |-> item.url,
     validation_status |-> "NOTFOUND", validation_message |-> msg]

\* DoctorInfoValidationProcessor._validation_result_to_dict
ValidationRecord(item, status) ==
    [fac_id_unif |-> item.fac_id_unif, url |-> item.url,
     validation_status |-> status, validation_message |-> "parsed"]

\* DoctorInfoValidationProcessor._update_validation_statistics(status)
UpdateValidationStatistics(vs, status) ==
    IF status = "VALID" THEN [vs EXCEPT !.valid_count = @ + 1]
    ELSE IF status = "PARTIAL" THEN [vs EXCEPT !.partial_count = @ + 1]
    ELSE IF status = "INVALID" THEN [vs EXCEPT !.invalid_count = @ + 1]
    ELSE IF status = "NOTFOUND" THEN [vs EXCEPT !.notfound_count = @ + 1]
    ELSE vs

InitialStats ==
    [total_processed |-> 0, successful |-> 0, failed |-> 0, records_extracted |-> 0]

InitialValidationStats ==
    [total_processed |-> 0, valid_count |-> 0, partial_count |-> 0,
     invalid_count |-> 0, notfound_count |-> 0, parsing_failures |-> 0,
     processing_errors |-> 0, natural_language_extractions |-> 0]

EmptyMap == [k \in {} |-> ""]

MapPut(m, k, v) == [x \in DOMAIN m \cup {k} |-> IF x = k THEN v ELSE m[x]]

N == Len(batch_items)

\* asyncio.Semaphore.locked(): no permit is left
SemLockedNever(value) == FALSE

SemLocked(value) == value <= 0

InitDispatch ==
    /\ job_type \in JobTypes
    /\ max_concurrent_requests \in 1..MaxConcurrent
    /\ \E n \in 1..MaxBatch :
          \E urls \in [1..n -> DispatchUrls] :
              batch_items = [i \in 1..n |-> BatchItem(i, urls[i])]
    /\ sem_value = max_concurrent_requests
    /\ task_pc = [i \in 1..Len(batch_items) |-> "pending"]
    /\ task_try = [i \in 1..Len(batch_items) |-> 0]
    /\ task_result = [i \in 1..Len(batch_items) |-> NoResult]
    /\ completed = <<>>
    /\ gathered = FALSE
    /\ stats = InitialStats
    /\ failed_items = EmptyMap
    /\ all_records = <<>>
    /\ validation_stats = InitialValidationStats

IdleDispatch ==
    /\ job_type = "base"
    /\ max_concurrent_requests = 1
    /\ batch_items = <<>>
    /\ sem_value = 1
    /\ task_pc = <<>>
    /\ task_try = <<>>
    /\ task_result = <<>>
    /\ completed = <<>>
    /\ gathered = FALSE
    /\ stats = InitialStats
    /\ failed_items = EmptyMap
    /\ all_records = <<>>
    /\ validation_stats = InitialValidationStats

\* the task of item i returns or raises: it leaves the semaphore section
Finish(i, result, permits) ==
    /\ task_pc' = [task_pc EXCEPT ![i] = "done"]
    /\ task_result' = [task_result EXCEPT ![i] = result]
    /\ completed' = Append(completed, i)
    /\ sem_value' = permits

\* the task of item i suspends at an await inside the semaphore section
Suspend(i, try, permits) ==
    /\ task_pc' = [task_pc EXCEPT ![i] = "fetching"]
    /\ task_try' = [task_try EXCEPT ![i] = try]
    /\ sem_value' = permits
    /\ UNCHANGED <<task_result, completed>>

\* BaseProcessor.process_batch_async.process_with_semaphore: the section holds
\* no await, so the task acquires, runs process_single_item and releases
StartBase(i) ==
    /\ job_type = "base"
    /\ task_pc[i] = "pending"
    /\ ~SemLocked(sem_value)
    /\ \E r \in {ListResult(<<>>), ExcResult(<<"process_single_item failed">>),
                 OtherResult} :
          Finish(i, r, sem_value)
    /\ UNCHANGED <<task_try, validation_stats>>

\* process_with_semaphore of doctor_info / outpatient up to the first await of
\* _process_single_url_async: acquire, validate the URL, start the fetch
StartExtraction(i) ==
    /\ job_type \in {"doctor_info", "outpatient"}
    /\ task_pc[i] = "pending"
    /\ ~SemLocked(sem_value)
    /\ IF ~validate_url(batch_items[i].url)
       THEN /\ Finish(i, ExcResult(<<"invalid URL", batch_items[i].url>>), sem_value)
            /\ UNCHANGED task_try
       ELSE Suspend(i, 1, sem_value - 1)
    /\ UNCHANGED validation_stats

\* DoctorInfoProcessor._process_single_url_async after the fetch returned
FetchDoneDoctorInfo(i) ==
    /\ job_type = "doctor_info"
    /\ task_pc[i] = "fetching"
    /\ \E page \in {"none", "blank", "records0", "records1"} :
          Finish(i,
                 CASE page = "none" -> ExcResult(<<"HTML fetch failed">>)
                   [] page = "blank" -> ExcResult(<<"content empty after preprocessing">>)
                   [] page = "records0" -> ListResult(<<>>)
                   [] page = "records1" -> ListResult(ExtractedRecords(batch_items[i], 1)),
                 sem_value + 1)
    /\ UNCHANGED <<task_try, validation_stats>>

\* OutpatientProcessor._process_single_url_async: the processor being tried
\* (_process_as_html / _as_image / _as_pdf) returns records, or fails and the
\* next one is tried; after the last one the item raises
FetchDoneOutpatient(i) ==
    /\ job_type = "outpatient"
    /\ task_pc[i] = "fetching"
    /\ \/ /\ Finish(i, ListResult(ExtractedRecords(batch_items[i], 1)), sem_value + 1)
          /\ UNCHANGED task_try
       \/ /\ task_try[i] < NumModalProcessors
          /\ Suspend(i, task_try[i] + 1, sem_value)
       \/ /\ task_try[i] = NumModalProcessors
          /\ Finish(i, ExcResult(<<"all multimodal processing failed">>), sem_value + 1)
          /\ UNCHANGED task_try
    /\ UNCHANGED validation_stats

\* _process_single_record_async of the validation job up to its first await
StartValidation(i) ==
    /\ job_type = "doctor_info_validation"
    /\ task_pc[i] = "pending"
    /\ ~SemLocked(sem_value)
    /\ IF batch_items[i].url = EmptyUrl
       THEN /\ Finish(i, ListResult(<<ErrorResultRecord(batch_items[i], "URL unknown")>>),
                      sem_value)
            /\ validation_stats' =
                  [validation_stats EXCEPT !.notfound_count = @ + 1]
            /\ UNCHANGED task_try
       ELSE /\ Suspend(i, 1, sem_value - 1)
            /\ UNCHANGED validation_stats

\* _process_single_record_async after the fetch returned: an error result, or
\* the decoded response (statistics updated, total_processed counted)
FetchDoneValidation(i) ==
    /\ job_type = "doctor_info_validation"
    /\ task_pc[i] = "fetching"
    /\ \/ \E msg \in {"HTML fetch failed"} \cup
                     (IF validate_url(batch_items[i].url)
                      THEN {"empty after preprocessing", "no AI response", "exception"}
                      ELSE {}) :
              /\ Finish(i, ListResult(<<ErrorResultRecord(batch_items[i], msg)>>),
                        sem_value + 1)
              /\ validation_stats' =
                    [validation_stats EXCEPT !.notfound_count = @ + 1]
       \/ \E status \in StatusValues :
              /\ validate_url(batch_items[i].url)
              /\ Finish(i, ListResult(<<ValidationRecord(batch_items[i], status)>>),
                        sem_value + 1)
              /\ validation_stats' =
                    [UpdateValidationStatistics(validation_stats, status)
                        EXCEPT !.total_processed = @ + 1]
    /\ UNCHANGED task_try

\* BaseProcessor._record_failure: the key under which an item's failure is kept,
\* item.get('URL') or item.get('url') or str(item.get('fac_id_unif')).  The key
\* is a string in the code; here it is tagged with the field it was taken from.
FailureKey(item) ==
    IF item.url # EmptyUrl THEN [url |-> item.url, fac_id_unif |-> ""]
    ELSE [url |-> EmptyUrl, fac_id_unif |-> item.fac_id_unif]

\* BaseProcessor._record_success(records)
RecordSuccess(st, records) ==
    [st EXCEPT !.stats.total_processed = @ + 1,
               !.stats.successful = @ + 1,
               !.stats.records_extracted = @ + Len(records),
               !.all_records = @ \o records]

\* the keys of FailureReasonClassifier.FAILURE_TYPES, the codes classify
\* returns
ReasonCodes ==
    {"CONNECTION_ERROR", "TIMEOUT_ERROR", "API_RATE_LIMIT", "API_ERROR",
     "EMPTY_RESPONSE", "PARSING_ERROR", "UNKNOWN_ERROR"}

\* BaseProcessor._record_failure(item, error_msg)
RecordFailure(st, item, msg) ==
    [st EXCEPT !.stats.total_processed = @ + 1,
               !.stats.failed = @ + 1,
               !.failed_items = MapPut(@, FailureKey(item), msg)]

\* asyncio.gather(*tasks, return_exceptions=True) in the order the tasks completed
GatherResultsByArrival(results, order) == [k \in 1..Len(order) |-> results[order[k]]]

\* asyncio.gather(*tasks, return_exceptions=True): results in the order of tasks
GatherResults(results, order) == [k \in 1..Len(results) |-> results[k]]

\* the loop over the gathered results that ends at the first exception
RECURSIVE ProcessResultsStopAtException(_, _, _)
ProcessResultsStopAtException(results, i, st) ==
    IF i > Len(results) THEN st
    ELSE LET r == results[i]
             item == batch_items[i]
         IN  IF r.kind = "exception" THEN RecordFailure(st, item, r.msg)
             ELSE ProcessResultsStopAtException(results, i + 1,
                     IF r.kind = "list" THEN RecordSuccess(st, r.records)
                     ELSE RecordFailure(st, item, <<"unexpected result format">>))

\* the loop over the gathered results of _process_batch_async_custom /
\* process_batch_async, from position i on
RECURSIVE ProcessResults(_, _, _)
ProcessResults(results, i, st) ==
    IF i > Len(results) THEN st
    ELSE LET r == results[i]
             item == batch_items[i]
         IN  ProcessResults(results, i + 1,
                CASE r.kind = "exception" -> RecordFailure(st, item, r.msg)
                  [] r.kind = "list" -> RecordSuccess(st, r.records)
                  [] OTHER -> RecordFailure(st, item, <<"unexpected result format">>))

\* the loop over the gathered results of the validation job's _process_batch_async
RECURSIVE ProcessValidationResults(_, _, _)
ProcessValidationResults(results, i, st) ==
    IF i > Len(results) THEN st
    ELSE LET r == results[i]
             item == batch_items[i]
         IN  ProcessValidationResults(results, i + 1,
                CASE r.kind = "exception" ->
                        [st EXCEPT !.validation_stats.processing_errors = @ + 1,
                                   !.validation_stats.notfound_count = @ + 1,
                                   !.all_records =
                                       @ \o <<ErrorResultRecord(item, "exception")>>]
                  [] r.kind = "list" /\ r.records # <<>> ->
                        [st EXCEPT !.all_records = @ \o r.records]
                  [] OTHER -> st)

\* every task is done: gather returns and the result loop runs to its end
Gather ==
    /\ ~gathered
    /\ N > 0
    /\ \A i \in 1..N : task_pc[i] = "done"
    /\ LET results == GatherResults(task_result, completed)
           st0 == [stats |-> stats, failed_items |-> failed_items,
                   all_records |-> all_records,
                   validation_stats |-> validation_stats]
           st1 == IF job_type = "doctor_info_validation"
                  THEN ProcessValidationResults(results, 1, st0)
                  ELSE ProcessResults(results, 1, st0)
       IN  /\ stats' = st1.stats
           /\ failed_items' = st1.failed_items
           /\ all_records' = st1.all_records
           /\ validation_stats' = st1.validation_stats
    /\ gathered' = TRUE
    /\ UNCHANGED <<job_type, max_concurrent_requests, batch_items, sem_value,
                   task_pc, task_try, task_result, completed>>

\* what a step of an item task leaves alone
TaskFrame ==
    UNCHANGED <<job_type, max_concurrent_requests, batch_items, gathered,
                stats, failed_items, all_records>>

(***************************************************************************)
(* Text.  A text is a sequence of tokens: the delimiter characters "TAB",  *)
(* "NL", "SP", "COMMA", "COLON" and words (maximal runs of other           *)
(* characters), so no two words are adjacent.                              *)
(***************************************************************************)
MaxTextLen == 4

Delimiters == {"TAB", "NL", "SP", "COMMA", "COLON"}

\* words of latin letters, and words of japanese characters:
\* "mukou" is 無効, "ichibu" 一部, "kakunin" 確認, "tanaka" 田中, "naika" 内科,
\* "shori_error" 処理エラー, "status_label" ステータス, "hantei_label" 判定
LatinWords == {"VALID", "PARTIAL", "INVALID", "NOTFOUND", "ok"}

JapaneseWords == {"mukou", "ichibu", "kakunin", "tanaka", "naika", "bucho",
                  "shori_error", "status_label", "hantei_label"}

Words == LatinWords \cup JapaneseWords

IsWord(c) == c \in Words

\* python's str.isspace / the regex class \s ("IDSP" is U+3000)
IsSpace(c) == c \in {"SP", "TAB", "NL", "IDSP"}

WellFormedText(t) ==
    \A i \in 1..(Len(t) - 1) : ~(IsWord(t[i]) /\ IsWord(t[i + 1]))

RECURSIVE LStrip(_)
LStrip(t) == IF t # <<>> /\ IsSpace(Head(t)) THEN LStrip(Tail(t)) ELSE t

RECURSIVE RStrip(_)
RStrip(t) ==
    IF t # <<>> /\ IsSpace(t[Len(t)]) THEN RStrip(SubSeq(t, 1, Len(t) - 1)) ELSE t

\* str.strip()
Strip(t) == LStrip(RStrip(t))

\* str.split(d) for a one-character delimiter d, from position i on
RECURSIVE SplitFrom(_, _, _, _)
SplitFrom(t, d, i, cur) ==
    IF i > Len(t) THEN <<cur>>
    ELSE IF t[i] = d THEN <<cur>> \o SplitFrom(t, d, i + 1, <<>>)
    ELSE SplitFrom(t, d, i + 1, Append(cur, t[i]))

Split(t, d) == SplitFrom(t, d, 1, <<>>)

\* the first position from i on that holds no whitespace (Len(t)+1 if none)
RECURSIVE SkipSpace(_, _)
SkipSpace(t, i) ==
    IF i <= Len(t) /\ IsSpace(t[i]) THEN SkipSpace(t, i + 1) ELSE i

\* re.split(r'\s{2,}', t), from position i on
RECURSIVE SplitRunsFrom(_, _, _)
SplitRunsFrom(t, i, cur) ==
    IF i > Len(t) THEN <<cur>>
    ELSE IF IsSpace(t[i]) /\ i < Len(t) /\ IsSpace(t[i + 1])
         THEN <<cur>> \o SplitRunsFrom(t, SkipSpace(t, i), <<>>)
    ELSE SplitRunsFrom(t, i + 1, Append(cur, t[i]))

SplitRuns(t) == SplitRunsFrom(t, 1, <<>>)

Contains(t, c) == \E i \in 1..Len(t) : t[i] = c

MinOf(S) == CHOOSE x \in S : \A y \in S : x <= y

(***************************************************************************)
(* Validation response decoder (doctor_info_validation.py)                 *)
(***************************************************************************)
\* the least number of tab-separated fields stage 1 accepts
MinTabFields == 3

\* the number of fields of the canonical schema
SchemaFields == 8

StatusWords == {"VALID", "PARTIAL", "INVALID", "NOTFOUND"}

NoParse == [parsed |-> FALSE]

\* ValidationResult(...)
ValidationResult(st, msg, name, dept, pos, spec, lic, oth) ==
    [parsed |-> TRUE, validation_status |-> st, validation_message |-> msg,
     corrected_name |-> name, corrected_department |-> dept,
     corrected_position |-> pos, corrected_specialty |-> spec,
     corrected_licence |-> lic, corrected_others |-> oth]

\* the record under validation (original_record)
OriginalRecord ==
    [name |-> <<"tanaka">>, department |-> <<"naika">>, position |-> <<"bucho">>,
     specialty |-> <<>>, licence |-> <<>>, others |-> <<>>]

\* while len(parts) < 8: parts.append("")
PadTo(parts, n) ==
    [i \in 1..Max(Len(parts), n) |-> IF i <= Len(parts) THEN parts[i] ELSE <<>>]

\* the ValidationResult made of the first eight parts, each stripped
ResultOfParts(parts) ==
    ValidationResult(Strip(parts[1]), Strip(parts[2]), Strip(parts[3]),
                     Strip(parts[4]), Strip(parts[5]), Strip(parts[6]),
                     Strip(parts[7]), Strip(parts[8]))

\* _try_tab_separated_parsing(response_text)
try_tab_separated_parsing(text) ==
    LET lines == Split(Strip(text), "NL")
        hits == {i \in 1..Len(lines) :
                    /\ Contains(lines[i], "TAB")
                    /\ Len(Split(lines[i], "TAB")) >= MinTabFields}
    IN  IF hits = {} THEN NoParse
        ELSE ResultOfParts(PadTo(Split(lines[MinOf(hits)], "TAB"), SchemaFields))

\* _try_space_separated_parsing(response_text)
try_space_separated_parsing(text) ==
    LET lines == Split(Strip(text), "NL")
        hits == {i \in 1..Len(lines) :
                    Len(SplitRuns(Strip(lines[i]))) >= SchemaFields}
    IN  IF hits = {} THEN NoParse
        ELSE ResultOfParts(SplitRuns(Strip(lines[MinOf(hits)])))

\* a match of (VALID|PARTIAL|INVALID|NOTFOUND)\s*[:\-\|]\s*(.+) starting at i:
\* the status word, optional whitespace, the separator, optional whitespace
\* and one more character that is not a newline
StatusPatternAt(t, i) ==
    /\ t[i] \in StatusWords
    /\ LET j == SkipSpace(t, i + 1)
       IN  /\ j <= Len(t)
           /\ t[j] = "COLON"
           /\ LET m == SkipSpace(t, j + 1)
              IN  \/ m <= Len(t)
                  \/ \E k \in (j + 1)..(m - 1) : t[k] \in {"SP", "TAB"}

\* the first position from i on that holds neither a colon nor whitespace
RECURSIVE SkipColonSpace(_, _)
SkipColonSpace(t, i) ==
    IF i <= Len(t) /\ (IsSpace(t[i]) \/ t[i] = "COLON")
    THEN SkipColonSpace(t, i + 1) ELSE i

\* a match of <label>[:\s]*([A-Z]+) (IGNORECASE) starting at i
LabelPatternAt(t, label, i) ==
    /\ t[i] = label
    /\ LET j == SkipColonSpace(t, i + 1)
       IN  j <= Len(t) /\ t[j] \in LatinWords

\* str.upper() of a latin word
Upper(w) == IF w = "ok" THEN "OK" ELSE w

RegexResult(status) ==
    ValidationResult(<<status>>, <<"regex_extraction">>, <<>>, <<>>, <<>>, <<>>,
                     <<>>, <<>>)

\* one pattern of _try_regex_parsing: the status of re.search's (leftmost)
\* match if it is one of the four, "" otherwise
LabelPatternStatus(t, label) ==
    LET hits == {i \in 1..Len(t) : LabelPatternAt(t, label, i)}
    IN  IF hits = {} THEN ""
        ELSE LET w == Upper(t[SkipColonSpace(t, MinOf(hits) + 1)])
             IN  IF w \in StatusWords THEN w ELSE ""

\* _try_regex_parsing(response_text)
try_regex_parsing(text) ==
    LET hits == {i \in 1..Len(text) : StatusPatternAt(text, i)}
    IN  IF hits # {} THEN RegexResult(text[MinOf(hits)])
        ELSE IF LabelPatternStatus(text, "status_label") # ""
             THEN RegexResult(LabelPatternStatus(text, "status_label"))
        ELSE IF LabelPatternStatus(text, "hantei_label") # ""
             THEN RegexResult(LabelPatternStatus(text, "hantei_label"))
        ELSE NoParse

\* _try_comma_separated_parsing(response_text)
try_comma_separated_parsing(text) ==
    LET lines == Split(Strip(text), "NL")
        hits == {i \in 1..Len(lines) :
                    /\ Contains(lines[i], "COMMA")
                    /\ Len(Split(lines[i], "COMMA")) >= SchemaFields}
    IN  IF hits = {} THEN NoParse
        ELSE ResultOfParts(Split(lines[MinOf(hits)], "COMMA"))

\* the keyword lists of _try_natural_language_extraction, by the words of the
\* vocabulary that contain one of the keywords (lower-cased)
InvalidKeywordWords == {"INVALID", "mukou"}

PartialKeywordWords == {"PARTIAL", "ichibu"}

ValidKeywordWords == {"VALID", "INVALID", "kakunin"}

HasWordOf(t, S) == \E i \in 1..Len(t) : t[i] \in S

\* _try_natural_language_extraction without its last return
try_natural_language_extraction_keywords_only(text, rec) ==
    IF HasWordOf(text, InvalidKeywordWords)
    THEN ValidationResult(<<"INVALID">>, <<"natural_language:invalid">>,
                          <<>>, <<>>, <<>>, <<>>, <<>>, <<>>)
    ELSE IF HasWordOf(text, PartialKeywordWords)
    THEN ValidationResult(<<"PARTIAL">>, <<"natural_language:partial">>,
                          rec.name, rec.department, rec.position, rec.specialty,
                          rec.licence, rec.others)
    ELSE IF HasWordOf(text, ValidKeywordWords)
    THEN ValidationResult(<<"VALID">>, <<"natural_language:valid">>,
                          rec.name, rec.department, rec.position, rec.specialty,
                          rec.licence, rec.others)
    ELSE NoParse

\* _try_natural_language_extraction(response_text, original_record): the result
try_natural_language_extraction(text, rec) ==
    IF try_natural_language_extraction_keywords_only(text, rec) # NoParse
    THEN try_natural_language_extraction_keywords_only(text, rec)
    ELSE ValidationResult(<<"NOTFOUND">>, <<"TSV_parse_failed">>,
                          rec.name, rec.department, <<>>, <<>>, <<>>, <<>>)

\* the ValidationResult returned when no stage produced one (lines 486-497)
ParseFailureResult(rec) ==
    ValidationResult(<<"NOTFOUND">>, <<"parse_failed">>, rec.name, rec.department,
                     <<>>, <<>>, <<>>, <<>>)

Stages == <<"tab_separated", "space_separated", "regex_based",
            "comma_separated", "natural_language">>

\* the result of a stage on a text
StageResult(stage, text) ==
    CASE stage = "tab_separated" -> try_tab_separated_parsing(text)
      [] stage = "space_separated" -> try_space_separated_parsing(text)
      [] stage = "regex_based" -> try_regex_parsing(text)
      [] stage = "comma_separated" -> try_comma_separated_parsing(text)
      [] stage = "natural_language" ->
            try_natural_language_extraction(text, OriginalRecord)

\* the stage tried after a stage that returned nothing, with the regex stage
\* tried before the space-separated one
NextStageRegexFirst(stage) ==
    CASE stage = "tab_separated" -> "regex_based"
      [] stage = "regex_based" -> "space_separated"
      [] stage = "space_separated" -> "comma_separated"
      [] stage = "comma_separated" -> "natural_language"
      [] stage = "natural_language" -> "failed"

\* the stage _parse_ai_response_robust tries after a stage that returned nothing
NextStage(stage) ==
    CASE stage = "tab_separated" -> "space_separated"
      [] stage = "space_separated" -> "regex_based"
      [] stage = "regex_based" -> "comma_separated"
      [] stage = "comma_separated" -> "natural_language"
      [] stage = "natural_language" -> "failed"

\* all texts of at most n tokens
TextsUpTo(n) ==
    UNION {{t \in [1..k -> Delimiters \cup {"VALID", "INVALID", "ok", "mukou",
                                             "status_label"}] :
               WellFormedText(t)} : k \in 0..n}

\* t[1], d, t[2], d, ..., t[k]: the first k fields joined by the delimiter d
RECURSIVE Join(_, _, _)
Join(fields, d, k) ==
    IF k = 0 THEN <<>>
    ELSE IF k = 1 THEN fields[1]
    ELSE Join(fields, d, k - 1) \o d \o fields[k]

\* the fields of "VALID<TAB>ok<TAB>田中<TAB>内科<TAB><TAB><TAB><TAB>" ...
ExampleFields == <<(<<"VALID">>), (<<"ok">>), (<<"tanaka">>), (<<"naika">>),
                   <<>>, <<>>, <<>>, <<>>, <<>>>>

\* ... of a full row, and of the row _call_ai_for_validation returns on an
\* error, "NOTFOUND<TAB>処理エラー<TAB><TAB><TAB><TAB><TAB><TAB>"
FullFields == <<(<<"PARTIAL">>), (<<"ok">>), (<<"tanaka">>), (<<"naika">>),
                (<<"bucho">>), (<<"kakunin">>), (<<"ok">>), (<<"ichibu">>),
                (<<"ok">>)>>

ErrorFields == <<(<<"NOTFOUND">>), (<<"shori_error">>), <<>>, <<>>, <<>>, <<>>,
                 <<>>, <<>>, <<>>>>

\* a row whose first field is "VALID:"
ColonFields == <<(<<"VALID", "COLON">>), (<<"ok">>), (<<"tanaka">>), (<<"naika">>),
                 (<<"bucho">>), (<<"ok">>), (<<"ok">>), (<<"ok">>), (<<"ok">>)>>

\* rows of 1 to 9 fields in the four delimiters, alone or after a line of prose
SampleTexts ==
    LET rows == {Join(f, d, k) :
                    f \in {ExampleFields, FullFields, ErrorFields, ColonFields},
                    d \in {<<"TAB">>, <<"SP", "SP">>, <<"COMMA">>, <<"SP">>,
                           <<"SP", "TAB">>},
                    k \in 1..9}
        more == {<<"hantei_label", "COLON", "PARTIAL">>,
                 <<"hantei_label", "SP", "ok">>,
                 <<"status_label", "COLON", "ok", "NL", "hantei_label", "NOTFOUND">>,
                 <<"kakunin">>, <<"ichibu", "SP", "kakunin">>,
                 <<"NOTFOUND", "SP", "COLON", "NL", "NL", "tanaka">>,
                 <<"PARTIAL", "COLON", "NL">>}
    IN  rows \cup {<<"ok", "SP", "ok", "NL">> \o r : r \in rows} \cup more

DecoderInputs == TextsUpTo(MaxTextLen) \cup SampleTexts

InitDecode ==
    /\ response_text \in DecoderInputs
    /\ dec_pc = "tab_separated"
    /\ dec_trace = <<>>
    /\ parsing_attempts = <<>>
    /\ dec_result = NoParse

IdleDecode ==
    /\ response_text = <<>>
    /\ dec_pc = "idle"
    /\ dec_trace = <<>>
    /\ parsing_attempts = <<>>
    /\ dec_result = NoParse

\* one try block of _parse_ai_response_robust: the stage is logged and run;
\* its result, if any, is returned with the stage named in parsing_attempts
TryStage(stage) ==
    /\ dec_pc = stage
    /\ dec_trace' = Append(dec_trace, stage)
    /\ LET result == StageResult(stage, response_text)
       IN  IF result # NoParse
           THEN /\ parsing_attempts' = Append(parsing_attempts, stage)
                /\ dec_result' = result
                /\ dec_pc' = "done"
           ELSE /\ dec_pc' = NextStage(stage)
                /\ UNCHANGED <<parsing_attempts, dec_result>>
    /\ UNCHANGED response_text

TryTabSeparated ==
    TryStage("tab_separated") /\ UNCHANGED validation_stats

TrySpaceSeparated ==
    TryStage("space_separated") /\ UNCHANGED validation_stats

TryRegex ==
    TryStage("regex_based") /\ UNCHANGED validation_stats

TryCommaSeparated ==
    TryStage("comma_separated") /\ UNCHANGED validation_stats

\* the fifth stage counts its use; when it returns nothing the parse failure
\* is counted and the NOTFOUND result of lines 486-497 is returned
TryNaturalLanguage ==
    /\ dec_pc = "natural_language"
    /\ dec_trace' = Append(dec_trace, "natural_language")
    /\ LET result == StageResult("natural_language", response_text)
       IN  IF result # NoParse
           THEN /\ parsing_attempts' = Append(parsing_attempts, "natural_language")
                /\ dec_result' = result
                /\ validation_stats' =
                      [validation_stats EXCEPT
                          !.natural_language_extractions = @ + 1]
           ELSE /\ dec_result' = ParseFailureResult(OriginalRecord)
                /\ validation_stats' =
                      [validation_stats EXCEPT
                          !.natural_language_extractions = @ + 1,
                          !.parsing_failures = @ + 1]
                /\ UNCHANGED parsing_attempts
    /\ dec_pc' = "done"
    /\ UNCHANGED response_text

(***************************************************************************)
(* Record fields are sequences of characters: the kanji "yama" 山, "da" 田, *)
(* "ta" 太, "rou" 郎, "naka" 中, "nai" 内, "ka" 科, "shin" 診, "ryou" 療,    *)
(* "bu" 部, "chou" 長, and "SP", "IDSP" (U+3000), "COMMA", "FWCOMMA" (，),   *)
(* "PERIOD", "FWPERIOD" (。), "DASH" (-), "QUOTE" (").                       *)
(***************************************************************************)
Kanji == {"yama", "da", "ta", "rou", "naka", "nai", "ka", "shin", "ryou", "bu",
          "chou"}

\* needle in hay
IsSubstring(needle, hay) ==
    \E i \in 0..(Len(hay) - Len(needle)) :
        SubSeq(hay, i + 1, i + Len(needle)) = needle

\* str.split(): the maximal runs without whitespace, from position i on
RECURSIVE SplitWordsFrom(_, _, _)
SplitWordsFrom(t, i, cur) ==
    IF i > Len(t) THEN (IF cur = <<>> THEN <<>> ELSE <<cur>>)
    ELSE IF IsSpace(t[i])
         THEN (IF cur = <<>> THEN <<>> ELSE <<cur>>) \o SplitWordsFrom(t, i + 1, <<>>)
    ELSE SplitWordsFrom(t, i + 1, Append(cur, t[i]))

SplitWords(t) == SplitWordsFrom(t, 1, <<>>)

\* re.sub(r'[\s　]+', ' ', text), from position i on
RECURSIVE CollapseSpaceFrom(_, _)
CollapseSpaceFrom(t, i) ==
    IF i > Len(t) THEN <<>>
    ELSE IF IsSpace(t[i]) THEN <<"SP">> \o CollapseSpaceFrom(t, SkipSpace(t, i))
    ELSE <<t[i]>> \o CollapseSpaceFrom(t, i + 1)

\* text.replace('，', ',').replace('。', '.')
UnifyPunctuation(t) ==
    [i \in 1..Len(t) |-> IF t[i] = "FWCOMMA" THEN "COMMA"
                         ELSE IF t[i] = "FWPERIOD" THEN "PERIOD" ELSE t[i]]

\* DoctorInfoProcessor._normalize_text(text)
normalize_text(text) == Strip(UnifyPunctuation(CollapseSpaceFrom(text, 1)))

(***************************************************************************)
(* Duplicate removal (doctor_info.py)                                      *)
(***************************************************************************)
MaxRecords == 2

\* a doctor_info record (ai_client_simple.py, record = {...}); its output_order
\* f"{fac_id_unif}_{n:05d}" is the pair of the facility and n
DoctorRecord(order, dept, name, pos, others, datetime) ==
    [fac_id_unif |-> "f1", output_order |-> <<"f1", order>>, department |-> dept,
     name |-> name, position |-> pos, specialty |-> <<>>, licence |-> <<>>,
     others |-> others, output_datetime |-> datetime]

\* the signature with the output_order as a seventh field
create_record_signature_with_order(record) ==
    Join(<<normalize_text(record.department), normalize_text(record.name),
           normalize_text(record.position), normalize_text(record.specialty),
           normalize_text(record.licence), normalize_text(record.others),
           <<record.output_order>> >>,
         <<"TAB">>, 7)

\* DoctorInfoProcessor._create_record_signature(record)
create_record_signature(record) ==
    Join(<<normalize_text(record.department), normalize_text(record.name),
           normalize_text(record.position), normalize_text(record.specialty),
           normalize_text(record.licence), normalize_text(record.others)>>,
         <<"TAB">>, 6)

\* the loop of _remove_duplicate_records from record i on
RECURSIVE RemoveDuplicatesFrom(_, _, _, _)
RemoveDuplicatesFrom(records, i, seen_signatures, unique_records) ==
    IF i > Len(records) THEN unique_records
    ELSE IF create_record_signature(records[i]) \notin seen_signatures
         THEN RemoveDuplicatesFrom(records, i + 1,
                                   seen_signatures \cup
                                      {create_record_signature(records[i])},
                                   Append(unique_records, records[i]))
    ELSE RemoveDuplicatesFrom(records, i + 1, seen_signatures, unique_records)

\* DoctorInfoProcessor._remove_duplicate_records(records)
remove_duplicate_records(records) == RemoveDuplicatesFrom(records, 1, {}, <<>>)

Tanaka == <<"da", "naka">>

Naika == <<"nai", "ka">>

\* records that differ in the spelling of the name, in the punctuation of
\* others, in output_order and in output_datetime
DedupRecords ==
    {DoctorRecord(order, Naika, name, <<"bu", "chou">>, others, datetime) :
        order \in 1..2, datetime \in {"t1", "t2"},
        name \in {Tanaka, <<"IDSP", "da", "SP", "IDSP", "naka", "SP">>,
                  <<"da", "SP", "naka">>},
        others \in {<<"bu", "FWCOMMA">>, <<"bu", "COMMA">>}}

InitDedup ==
    /\ dd_records \in UNION {[1..n -> DedupRecords] : n \in 0..MaxRecords}
    /\ dd_pc = "call"
    /\ dd_result = <<>>

IdleDedup ==
    /\ dd_records = <<>>
    /\ dd_pc = "idle"
    /\ dd_result = <<>>

\* one call of _remove_duplicate_records
RemoveDuplicateRecords ==
    /\ dd_pc = "call"
    /\ dd_result' = remove_duplicate_records(dd_records)
    /\ dd_pc' = "returned"
    /\ UNCHANGED dd_records

(***************************************************************************)
(* Record extraction of one item: the AI response rows of one page become  *)
(* the records returned (doctor_info.py, ai_client_simple.py, outpatient.py,*)
(* ai_client_outpatient_simple.py).  The rows hold no header words.        *)
(***************************************************************************)
MaxRows == 2

\* the least length of a name (ai_client_simple.py)
MinNameLen == 2

\* the least length of a field, and of a word of it, that is looked up word
\* by word (_validate_field_in_html)
MinPartialLen == 3

MinWordLen == 2

YamadaTaro == <<"yama", "da", "ta", "rou">>

\* department = clean_text(fields[0]) or "診療科"
DefaultDepartment == <<"shin", "ryou", "ka">>

\* header_values, as far as the characters of the model spell them: '診療科'
HeaderValues == {DefaultDepartment}

\* the names _parse_simple_response skips: 'N/A', 'なし', '-', '該当なし', '不明'
InvalidNames == {<<"DASH">>}

\* the characters clean_text removes at both ends: [\s"'()（）]
IsCleaned(c) == IsSpace(c) \/ c = "QUOTE"

RECURSIVE LClean(_)
LClean(t) == IF t # <<>> /\ IsCleaned(Head(t)) THEN LClean(Tail(t)) ELSE t

RECURSIVE RClean(_)
RClean(t) ==
    IF t # <<>> /\ IsCleaned(t[Len(t)]) THEN RClean(SubSeq(t, 1, Len(t) - 1)) ELSE t

\* clean_text(text)
clean_text(t) == Strip(LClean(RClean(t)))

\* SimpleDoctorInfoAIClient._parse_simple_response: the data rows from row i on
RECURSIVE DoctorInfoParseFrom(_, _, _)
DoctorInfoParseFrom(rows, i, records) ==
    IF i > Len(rows) THEN records
    ELSE LET department == IF clean_text(rows[i].department) # <<>>
                           THEN clean_text(rows[i].department)
                           ELSE DefaultDepartment
             name == clean_text(rows[i].name)
         IN  IF \/ name \in HeaderValues
                \/ department \in HeaderValues
                \/ Len(name) < MinNameLen
                \/ name \in InvalidNames
             THEN DoctorInfoParseFrom(rows, i + 1, records)
             ELSE DoctorInfoParseFrom(rows, i + 1,
                     Append(records,
                            DoctorRecord(Len(records) + 1, department, name,
                                         clean_text(rows[i].position), <<>>, "t1")))

\* DoctorInfoProcessor._validate_field_in_html(field_value, html_content)
validate_field_in_html(field_value, html_content) ==
    IF Strip(field_value) = <<>> THEN TRUE
    ELSE IF IsSubstring(normalize_text(field_value), normalize_text(html_content))
    THEN TRUE
    ELSE IF Len(normalize_text(field_value)) >= MinPartialLen
    THEN LET words == SplitWords(normalize_text(field_value))
         IN  \A k \in 1..Len(words) :
                Len(words[k]) >= MinWordLen
                   => IsSubstring(words[k], normalize_text(html_content))
    ELSE FALSE

\* the record as it is, its fields that the page does not hold kept
UncleanedRecord(record, html) == record

\* the record with its fields that the page does not hold blanked
CleanedRecord(record, html) ==
    [record EXCEPT
        !.position = IF validate_field_in_html(@, html) THEN @ ELSE <<>>,
        !.specialty = IF validate_field_in_html(@, html) THEN @ ELSE <<>>,
        !.licence = IF validate_field_in_html(@, html) THEN @ ELSE <<>>,
        !.others = IF validate_field_in_html(@, html) THEN @ ELSE <<>>]

\* DoctorInfoProcessor._validate_records_against_html, from record i on
RECURSIVE ValidateRecordsFrom(_, _, _)
ValidateRecordsFrom(records, html, i) ==
    IF i > Len(records) THEN <<>>
    ELSE IF /\ validate_field_in_html(records[i].name, html)
            /\ validate_field_in_html(records[i].department, html)
         THEN <<CleanedRecord(records[i], html)>>
                 \o ValidateRecordsFrom(records, html, i + 1)
    ELSE ValidateRecordsFrom(records, html, i + 1)

\* SimpleOutpatientAIClient._detect_fake_data: of fake_name_patterns, those
\* the characters of the model spell, r'山田.*太郎' and r'^山田\s*太郎$'
detect_fake_data(doctors_name) ==
    LET name == Strip(doctors_name)
    IN  /\ name \notin {<<>>, <<"DASH">>}
        /\ Len(name) >= 2
        /\ SubSeq(name, 1, 2) = <<"yama", "da">>
        /\ IsSubstring(<<"ta", "rou">>, SubSeq(name, 3, Len(name)))

\* SimpleOutpatientAIClient._is_valid_doctor_name(doctors_name)
is_valid_doctor_name(doctors_name) ==
    LET name == Strip(doctors_name)
    IN  IF name = <<>> THEN FALSE
        ELSE IF name = <<"DASH">> THEN TRUE
        ELSE IF detect_fake_data(doctors_name) THEN FALSE
        ELSE IF name[Len(name)] = "ka" THEN FALSE
        ELSE \E k \in 1..Len(name) : name[k] \in Kanji \cup {"SP"}

\* an outpatient record (ai_client_outpatient_simple.py, record = {...})
OutpatientRecord(dept, doctors_name, pos) ==
    [fac_id_unif |-> "f1", department |-> dept, doctors_name |-> doctors_name,
     position |-> pos, output_datetime |-> "t1"]

\* SimpleOutpatientAIClient._parse_simple_response: the data rows from row i on
RECURSIVE OutpatientParseFrom(_, _)
OutpatientParseFrom(rows, i) ==
    IF i > Len(rows) THEN <<>>
    ELSE IF \/ ~is_valid_doctor_name(clean_text(rows[i].name))
            \/ clean_text(rows[i].department) = <<>>
         THEN OutpatientParseFrom(rows, i + 1)
    ELSE <<OutpatientRecord(clean_text(rows[i].department),
                            clean_text(rows[i].name),
                            clean_text(rows[i].position))>>
            \o OutpatientParseFrom(rows, i + 1)

\* OutpatientProcessor._is_sample_data: of sample_names and
\* sample_departments, the one the characters of the model spell, '山田太郎'
is_sample_data(name, department) == IsSubstring(YamadaTaro, name)

\* the loop over _process_outpatient_record, from record i on
RECURSIVE ProcessOutpatientRecordsFrom(_, _)
ProcessOutpatientRecordsFrom(records, i) ==
    IF i > Len(records) THEN <<>>
    ELSE IF \/ Strip(records[i].department) = <<>>
            \/ is_sample_data(Strip(records[i].doctors_name),
                              Strip(records[i].department))
         THEN ProcessOutpatientRecordsFrom(records, i + 1)
    ELSE <<[records[i] EXCEPT !.department = Strip(@),
                              !.doctors_name = Strip(@),
                              !.position = Strip(@)]>>
            \o ProcessOutpatientRecordsFrom(records, i + 1)

\* a row of the AI response: its department, name and position columns
ResponseRows ==
    [department : {Naika, <<"QUOTE", "QUOTE">>},
     name : {YamadaTaro, <<"yama", "da", "SP", "ta", "rou">>,
             <<"naka">> \o YamadaTaro, <<"QUOTE">> \o Tanaka \o <<"QUOTE", "SP">>,
             Naika, <<"DASH">>, <<>>},
     position : {<<"bu", "chou">>}]

\* page contents: 内科 山田太郎 部長, 内科　田中, 診療科 山田
PageContents ==
    {Naika \o <<"SP">> \o YamadaTaro \o <<"NL", "bu", "chou">>,
     Naika \o <<"IDSP">> \o Tanaka,
     DefaultDepartment \o <<"SP", "yama", "da">>}

InitExtract ==
    /\ ex_job \in {"doctor_info", "outpatient"}
    /\ ex_html \in PageContents
    /\ ex_response \in UNION {[1..n -> ResponseRows] : n \in 0..MaxRows}
    /\ ex_pc = "fetched"
    /\ ex_records = <<>>

IdleExtract ==
    /\ ex_job = "none"
    /\ ex_html = <<>>
    /\ ex_response = <<>>
    /\ ex_pc = "idle"
    /\ ex_records = <<>>

\* doctor_info: records = self.ai_client.process_with_ai(...)
DoctorInfoParse ==
    /\ ex_job = "doctor_info"
    /\ ex_pc = "fetched"
    /\ ex_records' = DoctorInfoParseFrom(ex_response, 1, <<>>)
    /\ ex_pc' = "parsed"
    /\ UNCHANGED <<ex_job, ex_html, ex_response>>

\* doctor_info: _validate_records_against_html(records, processed_content)
DoctorInfoValidateHtml ==
    /\ ex_job = "doctor_info"
    /\ ex_pc = "parsed"
    /\ ex_records' = ValidateRecordsFrom(ex_records, ex_html, 1)
    /\ ex_pc' = "validated"
    /\ UNCHANGED <<ex_job, ex_html, ex_response>>

\* doctor_info: _remove_duplicate_records(validated_records) and the return
DoctorInfoRemoveDuplicates ==
    /\ ex_job = "doctor_info"
    /\ ex_pc = "validated"
    /\ ex_records' = remove_duplicate_records(ex_records)
    /\ ex_pc' = "returned"
    /\ UNCHANGED <<ex_job, ex_html, ex_response>>

\* outpatient: records = self.ai_client.process_with_ai(...); without records
\* the processor raises
OutpatientParse ==
    /\ ex_job = "outpatient"
    /\ ex_pc = "fetched"
    /\ ex_records' = OutpatientParseFrom(ex_response, 1)
    /\ ex_pc' = IF ex_records' = <<>> THEN "raised" ELSE "parsed"
    /\ UNCHANGED <<ex_job, ex_html, ex_response>>

\* outpatient: the loop over _process_outpatient_record and the return
OutpatientProcessRecords ==
    /\ ex_job = "outpatient"
    /\ ex_pc = "parsed"
    /\ ex_records' = ProcessOutpatientRecordsFrom(ex_records, 1)
    /\ ex_pc' = "returned"
    /\ UNCHANGED <<ex_job, ex_html, ex_response>>

(***************************************************************************)
(* Facility crawl (url_collector.py)                                       *)
(***************************************************************************)
MaxDepthBound == 2

MaxPagesBound == 4

\* str.lower() of a network location
Lower(netloc) == IF netloc = "H.EXAMPLE" THEN "h.example" ELSE netloc

\* utils.extract_domain(url)
extract_domain(url) == Lower(url.netloc)

SeedUrl == Url("http", "h.example", "/")

DoctorsUrl == Url("http", "h.example", "/doctors/")

DoctorsAUrl == Url("http", "h.example", "/doctors/a/")

AboutUrl == Url("http", "h.example", "/about/")

NewsUrl == Url("http", "h.example", "/news/")

ContactUrl == Url("http", "h.example", "/contact/")

UpperUrl == Url("http", "H.EXAMPLE", "/news/")

PdfUrl == Url("http", "h.example", "/a.pdf")

\* the href of an <a> tag: relative to the page, absolute, or one that
\* urljoin rejects with ValueError, such as "http://[x"
RelativeHref(path) ==
    [kind |-> "relative", scheme |-> "", netloc |-> "", path |-> path]

AbsoluteHref(url) ==
    [kind |-> "absolute", scheme |-> url.scheme, netloc |-> url.netloc,
     path |-> url.path]

MalformedHref == [kind |-> "malformed", scheme |-> "", netloc |-> "", path |-> ""]

\* urllib.parse.urljoin(base_url, href) of a href it accepts
urljoin(base, href) ==
    IF href.kind = "relative" THEN Url(base.scheme, base.netloc, href.path)
    ELSE Url(href.scheme, href.netloc, href.path)

\* the URLs of the model that hold one of exclude_keywords ('contact')
HasExcludeKeyword(url) == url.path \in {"/contact/"}

\* re.search(r'\\.(pdf|doc|...)$', url_lower): a backslash, one character and
\* the extension at the end of the URL
HasFileExtension(url) == url.path \in {"/a\\.pdf"}

\* url.lower() ends with .pdf, .doc, .docx, .xls, .xlsx, .zip, .jpg, .jpeg,
\* .png or .gif: the URLs of the model that do
EndsWithFileExtension(url) == url.path \in {"/a.pdf", "/a\\.pdf"}

\* _should_crawl_url without the comparison of the domains
ShouldCrawlAnyDomain(url, allowed_domain) ==
    /\ validate_url(url)
    /\ ~HasExcludeKeyword(url)
    /\ ~HasFileExtension(url)

\* UrlCollectorProcessor._should_crawl_url(url, allowed_domain)
should_crawl_url(url, allowed_domain) ==
    /\ validate_url(url)
    /\ extract_domain(url) = allowed_domain
    /\ ~HasExcludeKeyword(url)
    /\ ~HasFileExtension(url)

\* a page: the hrefs of its <a> tags and the keywords its text holds, of
\* "ishi" 医師, "gairai" 外来, "shinryoka" 診療科, "staff" スタッフ
Page(links, keywords) == [exists |-> TRUE, links |-> links, keywords |-> keywords]

NoPage == [exists |-> FALSE, links |-> {}, keywords |-> {}]

\* the URLs of the model whose URL matches one of the URL patterns ('/doctor')
MatchesUrlPattern(url) == url.path \in {"/doctors/", "/doctors/a/"}

\* UrlCollectorProcessor._is_doctor_or_schedule_page(html_content, url)
is_doctor_or_schedule_page(page, url) ==
    LET doctor_score == Cardinality(page.keywords \cap {"ishi"})
        schedule_score == Cardinality(page.keywords \cap {"gairai"})
        dept_score ==
            Cardinality(page.keywords \cap {"shinryoka", "gairai", "ishi", "staff"})
    IN  \/ MatchesUrlPattern(url)
        \/ doctor_score >= 1
        \/ schedule_score >= 1
        \/ dept_score >= 2
        \/ {"ishi", "shinryoka"} \subseteq page.keywords

\* UrlCollectorProcessor._extract_urls_from_html of a page without a href
\* that urljoin rejects: the set of the URLs to crawl
extract_urls_from_html(page, url, domain) ==
    {u \in {urljoin(url, h) : h \in page.links} : should_crawl_url(u, domain)}

\* list(set(urls)): the lists the set can become
ListsOf(S) == {l \in [1..Cardinality(S) -> S] : Range(l) = S}

CrawlUrls == {SeedUrl, DoctorsUrl, DoctorsAUrl, AboutUrl, NewsUrl, ContactUrl,
              UpperUrl, Url("http", "other.example", "/doctors/"),
              Url("http", "h.example", "/a\\.pdf"), PdfUrl}

\* the site of the scenario: the seed page links to /doctors/
ScenarioSite ==
    [u \in CrawlUrls |->
        IF u = SeedUrl THEN Page({RelativeHref("/doctors/")}, {})
        ELSE IF u = DoctorsUrl THEN Page({}, {"ishi"})
        ELSE NoPage]

\* a chain seed -> news -> doctors -> doctors/a, with links out of the crawl
ChainSite ==
    [u \in CrawlUrls |->
        IF u = SeedUrl
        THEN Page({RelativeHref("/news/"), RelativeHref("/contact/"),
                   RelativeHref("/a\\.pdf"), RelativeHref("/a.pdf"),
                   AbsoluteHref(Url("http", "other.example", "/doctors/"))}, {})
        ELSE IF u = NewsUrl THEN Page({RelativeHref("/doctors/")}, {"staff"})
        ELSE IF u = DoctorsUrl
        THEN Page({RelativeHref("/doctors/a/"), RelativeHref("/")}, {})
        ELSE IF u = DoctorsAUrl THEN Page({}, {})
        ELSE IF u = Url("http", "other.example", "/doctors/")
        THEN Page({}, {"ishi"})
        ELSE NoPage]

\* a seed page with four links; /about/ is a doctor page by its text
WideSite ==
    [u \in CrawlUrls |->
        IF u = SeedUrl
        THEN Page({RelativeHref("/about/"), RelativeHref("/doctors/"),
                   AbsoluteHref(UpperUrl)}, {"shinryoka"})
        ELSE IF u = AboutUrl
        THEN Page({RelativeHref("/doctors/a/"), RelativeHref("/doctors/")},
                  {"shinryoka", "staff"})
        ELSE IF u = DoctorsUrl THEN Page({RelativeHref("/doctors/a/")}, {})
        ELSE IF u = DoctorsAUrl THEN Page({RelativeHref("/about/")}, {})
        ELSE IF u = UpperUrl THEN Page({}, {})
        ELSE NoPage]

\* the /doctors/ page holds a href that urljoin rejects
MalformedLinkSite ==
    [u \in CrawlUrls |->
        IF u = SeedUrl THEN Page({RelativeHref("/doctors/")}, {})
        ELSE IF u = DoctorsUrl
        THEN Page({RelativeHref("/doctors/a/"), MalformedHref}, {"ishi"})
        ELSE IF u = DoctorsAUrl THEN Page({}, {})
        ELSE NoPage]

Sites == {ScenarioSite, ChainSite, WideSite, MalformedLinkSite}

\* while url_queue and page_count < self.max_pages_per_facility, with every
\* page count within the budget
BudgetLeftAlways(count, budget) == TRUE

\* while ... page_count < self.max_pages_per_facility
BudgetLeft(count, budget) == count < budget

InitCrawl ==
    /\ cr_site \in Sites
    /\ base_url \in {SeedUrl, ContactUrl}
    /\ max_depth \in 0..MaxDepthBound
    /\ max_pages_per_facility \in 1..MaxPagesBound
    /\ url_queue = <<(<<base_url, 0>>)>>
    /\ visited_urls = {}
    /\ found_urls = {}
    /\ page_count = 0
    /\ cr_pc = "loop"
    /\ fetch_log = {}

IdleCrawl ==
    /\ cr_site = <<>>
    /\ base_url = EmptyUrl
    /\ max_depth = 0
    /\ max_pages_per_facility = 0
    /\ url_queue = <<>>
    /\ visited_urls = {}
    /\ found_urls = {}
    /\ page_count = 0
    /\ cr_pc = "idle"
    /\ fetch_log = {}

current_url == Head(url_queue)[1]

depth == Head(url_queue)[2]

domain == extract_domain(base_url)

\* the while condition holds and the head of the queue is popped
Dequeue ==
    /\ cr_pc = "loop"
    /\ url_queue # <<>>
    /\ BudgetLeft(page_count, max_pages_per_facility)

\* what nothing in the crawl changes
CrawlFrame == UNCHANGED <<cr_site, base_url, max_depth, max_pages_per_facility>>

\* if current_url in visited_urls or depth > self.max_depth: continue
SkipVisitedOrDeep ==
    /\ Dequeue
    /\ current_url \in visited_urls \/ depth > max_depth
    /\ url_queue' = Tail(url_queue)
    /\ UNCHANGED <<visited_urls, found_urls, page_count, cr_pc, fetch_log>>
    /\ CrawlFrame

\* if not self._should_crawl_url(current_url, domain): continue
SkipNotCrawlable ==
    /\ Dequeue
    /\ ~(current_url \in visited_urls \/ depth > max_depth)
    /\ ~should_crawl_url(current_url, domain)
    /\ url_queue' = Tail(url_queue)
    /\ UNCHANGED <<visited_urls, found_urls, page_count, cr_pc, fetch_log>>
    /\ CrawlFrame

\* the head of the queue is to be fetched
ToFetch ==
    /\ Dequeue
    /\ ~(current_url \in visited_urls \/ depth > max_depth)
    /\ should_crawl_url(current_url, domain)

\* a failed fetch that puts the URL back at the end of the queue to try it
\* again
FetchFailedRequeues ==
    /\ ToFetch
    /\ fetch_log' = fetch_log \cup {<<current_url, depth>>}
    /\ url_queue' = Tail(url_queue) \o <<Head(url_queue)>>
    /\ UNCHANGED <<visited_urls, found_urls, page_count, cr_pc>>
    /\ CrawlFrame

\* fetch_html_async returns None (no such page, or the request failed):
\* if not html_content: continue
FetchFailed ==
    /\ ToFetch
    /\ fetch_log' = fetch_log \cup {<<current_url, depth>>}
    /\ url_queue' = Tail(url_queue)
    /\ UNCHANGED <<visited_urls, found_urls, page_count, cr_pc>>
    /\ CrawlFrame

\* the page is fetched, counted, classified and its links are queued in the
\* order list(set(urls)) gives them
VisitPage ==
    /\ ToFetch
    /\ cr_site[current_url].exists
    /\ MalformedHref \notin cr_site[current_url].links
    /\ fetch_log' = fetch_log \cup {<<current_url, depth>>}
    /\ visited_urls' = visited_urls \cup {current_url}
    /\ page_count' = page_count + 1
    /\ found_urls' =
          IF is_doctor_or_schedule_page(cr_site[current_url], current_url)
          THEN found_urls \cup {current_url} ELSE found_urls
    /\ \E page_urls \in
             ListsOf(extract_urls_from_html(cr_site[current_url], current_url,
                                            domain)) :
          url_queue' =
             Tail(url_queue) \o
                [i \in 1..Len(SelectSeq(page_urls,
                                        LAMBDA u : /\ u \notin visited_urls'
                                                   /\ depth + 1 <= max_depth))
                   |-> <<SelectSeq(page_urls,
                                   LAMBDA u : /\ u \notin visited_urls'
                                              /\ depth + 1 <= max_depth)[i],
                         depth + 1>>]
    /\ UNCHANGED cr_pc
    /\ CrawlFrame

\* the page is fetched and counted, then urljoin raises ValueError in
\* _extract_urls_from_html: except Exception: continue
VisitPageExtractionRaises ==
    /\ ToFetch
    /\ cr_site[current_url].exists
    /\ MalformedHref \in cr_site[current_url].links
    /\ fetch_log' = fetch_log \cup {<<current_url, depth>>}
    /\ visited_urls' = visited_urls \cup {current_url}
    /\ page_count' = page_count + 1
    /\ url_queue' = Tail(url_queue)
    /\ UNCHANGED <<found_urls, cr_pc>>
    /\ CrawlFrame

\* the while condition fails: result_urls = list(found_urls) is returned
FinishCrawl ==
    /\ cr_pc = "loop"
    /\ ~(url_queue # <<>> /\ BudgetLeft(page_count, max_pages_per_facility))
    /\ cr_pc' = "done"
    /\ UNCHANGED <<url_queue, visited_urls, found_urls, page_count, fetch_log>>
    /\ CrawlFrame

(***************************************************************************)
(* One run of main(): Config.from_env and Config.validate (config.py), the *)
(* run() function of the selected processor, BaseProcessor.run_async and   *)
(* process_data_async of doctor_info.py and url_collector.py.  The batches *)
(* of doctor_info are dispatched by the batch dispatcher above.            *)
(***************************************************************************)
MaxRunRows == 3

\* batch_size of DoctorInfoProcessor.process_data_async (20 in the source)
RunBatchSize == 2

RunJobTypes == {"url_collect", "doctor_info"}

\* JOB_TYPE: unset (""), a value Config.from_env rejects, or a job type
EnvJobTypes == {"", "other"} \cup RunJobTypes

\* "" is a variable that is unset (GEMINIKEY) or set to the empty string
EnvStrings == {"", "set"}

TaskIndexValues == {-1, 0, 1}

TaskCountValues == {0, 1}

\* FAILURE_STATISTICS_LOG_INTERVAL (config.py 83): the default, or 0
DefaultLogInterval == 100

LogIntervalValues == {0, DefaultLogInterval}

\* MAX_CONCURRENT_REQUESTS (config.py 79): a positive number, or -1, with
\* which asyncio.Semaphore raises ValueError
ConcurrencyValues == {-1, MaxConcurrent}

RunUrls == {Url("https", "h.example", "/a"), Url("ftp", "x", "")}

\* the tables get_task_data can return: up to MaxRunRows rows
RunTables ==
    UNION {{[i \in 1..n |-> BatchItem(i, urls[i])] : urls \in [1..n -> RunUrls]} :
              n \in 0..MaxRunRows}

\* Config.from_env raises ValueError (config.py 56-65)
FromEnvRaises(e) ==
    \/ e.JOB_TYPE = ""
    \/ e.JOB_TYPE \notin {"url_collect", "doctor_info", "outpatient",
                          "doctor_info_validation"}
    \/ e.GEMINIKEY = ""

\* Config.validate raises ValueError (config.py 86-101)
ValidateRaises(e) ==
    \/ e.PROJECT_ID = ""
    \/ e.INPUT_BUCKET = ""
    \/ e.CLOUD_RUN_TASK_INDEX < 0
    \/ e.CLOUD_RUN_TASK_COUNT <= 0
    \/ e.CLOUD_RUN_TASK_INDEX >= e.CLOUD_RUN_TASK_COUNT

InitRun ==
    /\ env \in [JOB_TYPE : EnvJobTypes, GEMINIKEY : EnvStrings,
                PROJECT_ID : EnvStrings, INPUT_BUCKET : EnvStrings,
                CLOUD_RUN_TASK_INDEX : TaskIndexValues,
                CLOUD_RUN_TASK_COUNT : TaskCountValues,
                FAILURE_STATISTICS_LOG_INTERVAL : LogIntervalValues,
                MAX_CONCURRENT_REQUESTS : ConcurrencyValues]
    /\ env.JOB_TYPE # "url_collect"
          => env.FAILURE_STATISTICS_LOG_INTERVAL = DefaultLogInterval
    /\ env.JOB_TYPE # "doctor_info"
          => env.MAX_CONCURRENT_REQUESTS = MaxConcurrent
    /\ run_pc = "main"
    /\ task_df = <<>>
    /\ batch_start = 0
    /\ outcomes = <<>>
    /\ save_attempted = FALSE
    /\ saved_records = <<>>
    /\ final_stats_logged = FALSE
    /\ run_error = "none"
    /\ interrupted = FALSE
    /\ exit_code = -1

IdleRun ==
    /\ env = [JOB_TYPE |-> ""]
    /\ run_pc = "idle"
    /\ task_df = <<>>
    /\ batch_start = 0
    /\ outcomes = <<>>
    /\ save_attempted = FALSE
    /\ saved_records = <<>>
    /\ final_stats_logged = FALSE
    /\ run_error = "none"
    /\ interrupted = FALSE
    /\ exit_code = -1

\* the dispatcher's variables of the batch in flight
batchVars == <<batch_items, sem_value, task_pc, task_try, task_result,
               completed, gathered>>

\* the processor's accumulators
accVars == <<stats, failed_items, all_records>>

\* main.py 42: config = Config.from_env(); a ValueError is caught by
\* `except Exception` (main.py 95-109) and main returns 1
MainFromEnv ==
    /\ run_pc = "main"
    /\ IF FromEnvRaises(env)
       THEN /\ run_pc' = "exit"
            /\ exit_code' = 1
            /\ run_error' = "from_env"
            /\ UNCHANGED job_type
       ELSE /\ run_pc' = "loaded"
            /\ job_type' = env.JOB_TYPE
            /\ UNCHANGED <<exit_code, run_error>>
    /\ UNCHANGED <<env, task_df, batch_start, outcomes, save_attempted,
                   saved_records, final_stats_logged, interrupted>>
    /\ UNCHANGED <<max_concurrent_requests, batchVars, accVars, validation_stats>>

\* main without the call of config.validate()
MainWithoutValidate ==
    /\ run_pc = "loaded"
    /\ run_pc' = "run"
    /\ max_concurrent_requests' = env.MAX_CONCURRENT_REQUESTS
    /\ UNCHANGED <<exit_code, run_error>>
    /\ UNCHANGED <<env, task_df, batch_start, outcomes, save_attempted,
                   saved_records, final_stats_logged, interrupted>>
    /\ UNCHANGED <<job_type, batchVars, accVars, validation_stats>>

\* main.py 58: config.validate(), then the run() of the job type is called
\* and constructs the processor
MainValidate ==
    /\ run_pc = "loaded"
    /\ IF ValidateRaises(env)
       THEN /\ run_pc' = "exit"
            /\ exit_code' = 1
            /\ run_error' = "validate"
            /\ UNCHANGED max_concurrent_requests
       ELSE /\ run_pc' = "run"
            /\ max_concurrent_requests' = env.MAX_CONCURRENT_REQUESTS
            /\ UNCHANGED <<exit_code, run_error>>
    /\ UNCHANGED <<env, task_df, batch_start, outcomes, save_attempted,
                   saved_records, final_stats_logged, interrupted>>
    /\ UNCHANGED <<job_type, batchVars, accVars, validation_stats>>

\* what the steps of run_async up to the batch loop leave unchanged
RunFrame ==
    /\ UNCHANGED <<env, outcomes, save_attempted, saved_records,
                   final_stats_logged, interrupted, exit_code>>
    /\ UNCHANGED <<job_type, max_concurrent_requests, batchVars, accVars,
                   validation_stats>>

\* run_async: df = fetch_input_csv(); task_df = get_task_data(df); an empty
\* task returns at once; a storage error is logged and raised again
RunFetchInput ==
    /\ run_pc = "run"
    /\ \/ /\ run_error' = "fetch_input_csv"
          /\ run_pc' = "finally"
          /\ UNCHANGED task_df
       \/ \E table \in RunTables :
             /\ task_df' = table
             /\ run_pc' = IF table = <<>> THEN "finally" ELSE "input_read"
             /\ UNCHANGED run_error
    /\ UNCHANGED batch_start
    /\ RunFrame

\* run_async: prompt = fetch_prompt(), then process_data_async starts
RunFetchPrompt ==
    /\ run_pc = "input_read"
    /\ \/ /\ run_error' = "fetch_prompt"
          /\ run_pc' = "finally"
       \/ /\ run_pc' = "processing"
          /\ UNCHANGED run_error
    /\ UNCHANGED <<task_df, batch_start>>
    /\ RunFrame

\* an item's processing ended without an exception but is recorded as a failure
FailResult(msg) == [kind |-> "failure", msg |-> msg]

\* UrlCollectorProcessor.process_data_async, one row of the loop: the crawl
\* returns URLs and they are classified (_record_success), it returns none
\* (_record_failure), or an exception is caught and recorded; then the
\* progress is updated and progress.current % failure_statistics_log_interval
\* is evaluated outside the try block
RunFacility ==
    /\ run_pc = "processing"
    /\ job_type = "url_collect"
    /\ batch_start < Len(task_df)
    /\ LET item == task_df[batch_start + 1]
           st0 == [stats |-> stats, failed_items |-> failed_items,
                   all_records |-> all_records]
       IN  \E r \in {ListResult(<<>>), ListResult(ExtractedRecords(item, 1)),
                     FailResult(<<"URL collection failed">>),
                     ExcResult(<<"facility processing error">>)} :
              LET st1 == IF r.kind = "list" THEN RecordSuccess(st0, r.records)
                         ELSE RecordFailure(st0, item, r.msg)
              IN  /\ stats' = st1.stats
                  /\ failed_items' = st1.failed_items
                  /\ all_records' = st1.all_records
                  /\ outcomes' = Append(outcomes, r.kind)
    /\ batch_start' = batch_start + 1
    /\ IF env.FAILURE_STATISTICS_LOG_INTERVAL = 0
       THEN /\ run_error' = "ZeroDivisionError"
            /\ run_pc' = "finally"
       ELSE UNCHANGED <<run_error, run_pc>>
    /\ UNCHANGED <<env, task_df, save_attempted, saved_records,
                   final_stats_logged, interrupted, exit_code>>
    /\ UNCHANGED <<job_type, max_concurrent_requests, batchVars, validation_stats>>

\* DoctorInfoProcessor.process_data_async: the next batch_size rows become
\* the batch and _process_batch_async_custom creates its tasks
RunStartBatch ==
    /\ run_pc = "processing"
    /\ job_type = "doctor_info"
    /\ batch_start < Len(task_df)
    /\ batch_items' = SubSeq(task_df, batch_start + 1,
                             Min(batch_start + RunBatchSize, Len(task_df)))
    /\ sem_value' = Max(max_concurrent_requests, 0)
    /\ task_pc' = [i \in 1..Len(batch_items') |-> "pending"]
    /\ task_try' = [i \in 1..Len(batch_items') |-> 0]
    /\ task_result' = [i \in 1..Len(batch_items') |-> NoResult]
    /\ completed' = <<>>
    /\ gathered' = FALSE
    /\ run_pc' = IF max_concurrent_requests < 0 THEN "fallback" ELSE "batch"
    /\ UNCHANGED <<env, task_df, batch_start, outcomes, save_attempted,
                   saved_records, final_stats_logged, run_error, interrupted,
                   exit_code>>
    /\ UNCHANGED <<job_type, max_concurrent_requests, accVars, validation_stats>>

\* _process_batch_async_custom returned: the progress is logged and the loop
\* goes on with the next batch
RunBatchDone ==
    /\ run_pc = "batch"
    /\ gathered
    /\ outcomes' = outcomes \o [k \in 1..N |-> task_result[k].kind]
    /\ batch_start' = batch_start + RunBatchSize
    /\ run_pc' = "processing"
    /\ UNCHANGED <<env, task_df, save_attempted, saved_records,
                   final_stats_logged, run_error, interrupted, exit_code>>
    /\ UNCHANGED <<job_type, max_concurrent_requests, batchVars, accVars,
                   validation_stats>>

\* what _process_single_url_async of doctor_info returns or raises for an item
SingleUrlResults(item) ==
    IF ~validate_url(item.url)
    THEN {ExcResult(<<"invalid URL", item.url>>)}
    ELSE {ExcResult(<<"HTML fetch failed">>),
          ExcResult(<<"content empty after preprocessing">>),
          ListResult(<<>>),
          ListResult(ExtractedRecords(item, 1))}

\* the fallback's bookkeeping with the success counted a second time
FallbackRecordTwice(st, item, result) ==
    IF result.kind = "list"
    THEN RecordSuccess(RecordSuccess(st, result.records), result.records)
    ELSE RecordFailure(RecordFailure(st, item, result.msg), item, result.msg)

\* the body of the fallback loop: _record_success(result), or
\* _record_failure(item, str(item_error)) for an exception
FallbackRecord(st, item, result) ==
    IF result.kind = "list" THEN RecordSuccess(st, result.records)
    ELSE RecordFailure(st, item, result.msg)

\* process_data_async, "except Exception": the items of the batch are
\* processed one after the other, in order
RunFallbackItem ==
    /\ run_pc = "fallback"
    /\ \E i \in 1..N :
          /\ task_pc[i] = "pending"
          /\ \A k \in 1..(i - 1) : task_pc[k] = "done"
          /\ \E result \in SingleUrlResults(batch_items[i]) :
                LET st0 == [stats |-> stats, failed_items |-> failed_items,
                            all_records |-> all_records]
                    st1 == FallbackRecord(st0, batch_items[i], result)
                IN  /\ stats' = st1.stats
                    /\ failed_items' = st1.failed_items
                    /\ all_records' = st1.all_records
                    /\ task_result' = [task_result EXCEPT ![i] = result]
          /\ task_pc' = [task_pc EXCEPT ![i] = "done"]
          /\ completed' = Append(completed, i)
    /\ UNCHANGED <<env, task_df, batch_start, outcomes, save_attempted,
                   saved_records, final_stats_logged, run_error, interrupted,
                   exit_code, run_pc>>
    /\ UNCHANGED <<job_type, max_concurrent_requests, batch_items, sem_value,
                   task_try, gathered, validation_stats>>

\* the fallback loop is over: the loop over the batches goes on
RunFallbackDone ==
    /\ run_pc = "fallback"
    /\ \A i \in 1..N : task_pc[i] = "done"
    /\ outcomes' = outcomes \o [k \in 1..N |-> task_result[k].kind]
    /\ batch_start' = batch_start + RunBatchSize
    /\ run_pc' = "processing"
    /\ UNCHANGED <<env, task_df, save_attempted, saved_records,
                   final_stats_logged, run_error, interrupted, exit_code>>
    /\ UNCHANGED <<job_type, max_concurrent_requests, batchVars, accVars,
                   validation_stats>>

\* the loop of process_data_async is over: run_async goes on to save_results
RunProcessed ==
    /\ run_pc = "processing"
    /\ batch_start >= Len(task_df)
    /\ run_pc' = "save"
    /\ UNCHANGED <<task_df, batch_start, run_error>>
    /\ RunFrame

\* df.drop_duplicates(): of rows equal in every column the first is kept
RECURSIVE DropDuplicatesFrom(_, _, _)
DropDuplicatesFrom(records, i, kept) ==
    IF i > Len(records) THEN kept
    ELSE DropDuplicatesFrom(records, i + 1,
            IF \E k \in 1..Len(kept) : kept[k] = records[i] THEN kept
            ELSE Append(kept, records[i]))

\* UnifiedGCSClient.upload_tsv(records): the rows written.  The records of
\* the url_collect job are unique in (fac_id_unif, url) here, so its
\* drop_duplicates(subset=...) drops nothing either.
upload_tsv(records) == DropDuplicatesFrom(records, 1, <<>>)

\* BaseProcessor.save_results: upload_tsv when there are records; its
\* exception is logged and raised again
RunSave ==
    /\ run_pc = "save"
    /\ save_attempted' = TRUE
    /\ IF all_records = <<>>
       THEN /\ run_pc' = "stats"
            /\ UNCHANGED <<saved_records, run_error>>
       ELSE \/ /\ saved_records' = upload_tsv(all_records)
               /\ run_pc' = "stats"
               /\ UNCHANGED run_error
            \/ /\ run_error' = "upload_tsv"
               /\ run_pc' = "finally"
               /\ UNCHANGED saved_records
    /\ UNCHANGED <<env, task_df, batch_start, outcomes, final_stats_logged,
                   interrupted, exit_code>>
    /\ UNCHANGED <<job_type, max_concurrent_requests, batchVars, accVars,
                   validation_stats>>

\* run_async: self.log_final_stats()
RunLogFinalStats ==
    /\ run_pc = "stats"
    /\ final_stats_logged' = TRUE
    /\ run_pc' = "finally"
    /\ UNCHANGED <<env, task_df, batch_start, outcomes, save_attempted,
                   saved_records, run_error, interrupted, exit_code>>
    /\ UNCHANGED <<job_type, max_concurrent_requests, batchVars, accVars,
                   validation_stats>>

\* the except clause of run_async logs and raises again, its finally clause
\* uploads the log, and the finally clause of run() calls processor.cleanup():
\* UrlCollectorProcessor.cleanup logs the failure statistics,
\* BaseProcessor.cleanup (doctor_info) only frees memory
RunFinally ==
    /\ run_pc = "finally"
    /\ final_stats_logged' = (final_stats_logged \/ job_type = "url_collect")
    /\ run_pc' = "return"
    /\ UNCHANGED <<env, task_df, batch_start, outcomes, save_attempted,
                   saved_records, run_error, interrupted, exit_code>>
    /\ UNCHANGED <<job_type, max_concurrent_requests, batchVars, accVars,
                   validation_stats>>

\* KeyboardInterrupt between two steps of the run: the finally clauses run
\* and main returns 130 (main.py 88-93)
MainInterrupt ==
    /\ run_pc \in {"main", "loaded", "run", "input_read", "processing", "save",
                   "stats"}
    /\ interrupted' = TRUE
    /\ run_pc' = IF run_pc \in {"main", "loaded"} THEN "return" ELSE "finally"
    /\ UNCHANGED <<env, task_df, batch_start, outcomes, save_attempted,
                   saved_records, final_stats_logged, run_error, exit_code>>
    /\ UNCHANGED <<job_type, max_concurrent_requests, batchVars, accVars,
                   validation_stats>>

\* main returns: 130 after KeyboardInterrupt, 1 after an exception, else 0
MainReturn ==
    /\ run_pc = "return"
    /\ exit_code' = IF interrupted THEN 130
                    ELSE IF run_error # "none" THEN 1 ELSE 0
    /\ run_pc' = "exit"
    /\ UNCHANGED <<env, task_df, batch_start, outcomes, save_attempted,
                   saved_records, final_stats_logged, run_error, interrupted>>
    /\ UNCHANGED <<job_type, max_concurrent_requests, batchVars, accVars,
                   validation_stats>>

(***************************************************************************)
(* One remote extraction call: process_with_ai of UnifiedAIClient          *)
(* (ai_client.py), of SimpleDoctorInfoAIClient (ai_client_simple.py) and   *)
(* of SimpleURLCollectAIClient (ai_client_url_simple.py) as                *)
(* UrlCollectorProcessor._call_ai_for_classification calls it.             *)
(***************************************************************************)
MaxRetries == 4

\* @retry(stop=stop_after_attempt(3)) of UnifiedAIClient.process_with_ai
StopAfterAttempt == 3

AiClients ==
    {"UnifiedAIClient", "SimpleDoctorInfoAIClient", "SimpleURLCollectAIClient"}

\* what the service does in one attempt: it answers with rows or with
\* nothing, it fails with a rate-limit (429) or server (503) error or with a
\* permanent one (400), or it does not complete within config.ai_timeout
TransientErrors == {"rate_limit", "server_error"}

PermanentErrors == {"permanent"}

AttemptOutcomes ==
    {"records", "empty", "no_completion"} \cup TransientErrors
       \cup PermanentErrors

\* the records parsed from the response of an attempt
ResponseRecords(outcome) ==
    IF outcome = "records" THEN <<[type |-> "s"]>> ELSE <<>>

InitAi ==
    /\ ai_client \in AiClients
    /\ max_retries \in 1..MaxRetries
    /\ ai_pc = "call"
    /\ ai_attempts = <<>>
    /\ ai_records = <<>>
    /\ failure_reason = "none"

IdleAi ==
    /\ ai_client = "none"
    /\ max_retries = 1
    /\ ai_pc = "idle"
    /\ ai_attempts = <<>>
    /\ ai_records = <<>>
    /\ failure_reason = "none"

\* UnifiedAIClient.process_with_ai, one attempt under tenacity's retry:
\* _call_ai_api waits for the thread until ai_timeout and raises TimeoutError
\* or the error of the call; process_with_ai logs and raises again; any
\* exception is retried until the third attempt, whose exception is raised
\* to the caller (RetryError)
UnifiedAttempt ==
    /\ ai_client = "UnifiedAIClient"
    /\ ai_pc = "call"
    /\ \E outcome \in AttemptOutcomes :
          /\ ai_attempts' = Append(ai_attempts, outcome)
          /\ IF outcome \in {"records", "empty"}
             THEN /\ ai_pc' = "returned"
                  /\ ai_records' = ResponseRecords(outcome)
             ELSE /\ ai_pc' = IF Len(ai_attempts') < StopAfterAttempt
                              THEN "call" ELSE "raised"
                  /\ UNCHANGED ai_records
    /\ UNCHANGED <<ai_client, max_retries, failure_reason>>

\* _call_ai_for_classification after process_with_ai returned: no record is
\* recorded as a failure with the reason EMPTY_RESPONSE
RecordedReason(client, records) ==
    IF client = "SimpleURLCollectAIClient" /\ records = <<>>
    THEN "EMPTY_RESPONSE" ELSE "none"

\* process_with_ai of the simple clients: one call of model.generate_content
\* without a timeout; every exception is logged and [] is returned.  When
\* the call does not complete within ai_timeout the caller is still waiting.
SimpleAttempt ==
    /\ ai_client # "UnifiedAIClient"
    /\ ai_pc = "call"
    /\ \E outcome \in AttemptOutcomes :
          /\ ai_attempts' = <<outcome>>
          /\ IF outcome = "no_completion"
             THEN /\ ai_pc' = "waiting"
                  /\ UNCHANGED <<ai_records, failure_reason>>
             ELSE /\ ai_pc' = "returned"
                  /\ ai_records' = ResponseRecords(outcome)
                  /\ failure_reason' = RecordedReason(ai_client, ai_records')
    /\ UNCHANGED <<ai_client, max_retries>>

\* the call of generate_content that outlasted ai_timeout ends at last, with
\* a response or with an exception of the library
SimpleWaitEnds ==
    /\ ai_client # "UnifiedAIClient"
    /\ ai_pc = "waiting"
    /\ \E outcome \in {"records", "empty", "server_error"} :
          /\ ai_records' = ResponseRecords(outcome)
          /\ failure_reason' = RecordedReason(ai_client, ai_records')
    /\ ai_pc' = "returned"
    /\ UNCHANGED <<ai_client, max_retries, ai_attempts>>

(***************************************************************************)
(* The failure statistics of a url_collect run: FailureStatistics          *)
(* (statistics_manager.py), AlertManager (failure_recorder.py) and the     *)
(* places of UrlCollectorProcessor that update and evaluate them.          *)
(***************************************************************************)
MaxStatRows == 5

MaxStatUrls == 2

\* "if progress.current % 5 == 0: self.cleanup()"
CleanupInterval == 5

\* failure_rate_alert_threshold: float = 0.15
DefaultThresholdPct == 15

ThresholdPcts == {0, DefaultThresholdPct, 50}

\* current_failure_rate > self.threshold, with the threshold in percent
AboveThreshold(failures, total, pct) == failures * 100 > pct * total

\* AlertManager.check_and_alert: nothing for empty statistics, else an
\* alert line when the failure rate is strictly above the threshold
check_and_alert(log, total, failures, pct) ==
    IF total = 0 THEN log
    ELSE IF AboveThreshold(failures, total, pct)
         THEN Append(log, [total_processed |-> total,
                           ai_failure_count |-> failures])
         ELSE log

InitStats ==
    /\ st_pc = "classify"
    /\ stat_rows \in 1..MaxStatRows
    /\ progress_current = 0
    /\ urls_left \in 0..MaxStatUrls
    /\ total_processed = 0
    /\ ai_success_count = 0
    /\ ai_failure_count = 0
    /\ threshold_pct \in ThresholdPcts
    /\ alert_log = <<>>

IdleStats ==
    /\ st_pc = "idle"
    /\ stat_rows = 0
    /\ progress_current = 0
    /\ urls_left = 0
    /\ total_processed = 0
    /\ ai_success_count = 0
    /\ ai_failure_count = 0
    /\ threshold_pct = DefaultThresholdPct
    /\ alert_log = <<>>

statConfig == <<stat_rows, threshold_pct>>

\* _call_ai_for_classification got a record: FailureStatistics.update_success
UpdateSuccess ==
    /\ st_pc = "classify"
    /\ urls_left > 0
    /\ urls_left' = urls_left - 1
    /\ total_processed' = total_processed + 1
    /\ ai_success_count' = ai_success_count + 1
    /\ UNCHANGED <<st_pc, progress_current, ai_failure_count, alert_log>>
    /\ UNCHANGED statConfig

\* _call_ai_for_classification got no record or an exception:
\* FailureStatistics.update_failure
UpdateFailure ==
    /\ st_pc = "classify"
    /\ urls_left > 0
    /\ urls_left' = urls_left - 1
    /\ total_processed' = total_processed + 1
    /\ ai_failure_count' = ai_failure_count + 1
    /\ UNCHANGED <<st_pc, progress_current, ai_success_count, alert_log>>
    /\ UNCHANGED statConfig

\* _classify_single_url_async returns None before the remote call (the page
\* could not be fetched): the statistics are not updated
ClassifyWithoutCall ==
    /\ st_pc = "classify"
    /\ urls_left > 0
    /\ urls_left' = urls_left - 1
    /\ UNCHANGED <<st_pc, progress_current, total_processed,
                   ai_success_count, ai_failure_count, alert_log>>
    /\ UNCHANGED statConfig

\* the end of the loop body of process_data_async: progress.update() and,
\* every fifth facility, cleanup(), which evaluates the alert condition
FacilityDone ==
    /\ st_pc = "classify"
    /\ urls_left = 0
    /\ progress_current' = progress_current + 1
    /\ alert_log' = IF progress_current' % CleanupInterval = 0
                    THEN check_and_alert(alert_log, total_processed,
                                         ai_failure_count, threshold_pct)
                    ELSE alert_log
    /\ IF progress_current' < stat_rows
       THEN /\ urls_left' \in 0..MaxStatUrls
            /\ UNCHANGED st_pc
       ELSE /\ st_pc' = "finally"
            /\ UNCHANGED urls_left
    /\ UNCHANGED <<total_processed, ai_success_count, ai_failure_count>>
    /\ UNCHANGED statConfig

\* run(): "finally: processor.cleanup()"
FinalCleanup ==
    /\ st_pc = "finally"
    /\ st_pc' = "done"
    /\ alert_log' = check_and_alert(alert_log, total_processed,
                                    ai_failure_count, threshold_pct)
    /\ UNCHANGED <<progress_current, urls_left, total_processed,
                   ai_success_count, ai_failure_count>>
    /\ UNCHANGED statConfig

(***************************************************************************)
(* The record set of a doctor_info run: each item's page records pass      *)
(* _remove_duplicate_records (doctor_info.py), are appended to all_records *)
(* (base_processor.py) and are written by upload_tsv (gcs_client.py).      *)
(***************************************************************************)
MaxFinalItems == 2

\* the names of the validated records of one page, in order
PageNameLists ==
    {<<>>, <<YamadaTaro>>, <<YamadaTaro, YamadaTaro>>, <<YamadaTaro, Tanaka>>}

FinalItems ==
    [fac_id_unif : {"f1", "f2"}, url : {"u1", "u2"}, names : PageNameLists]

\* the records _parse_simple_response builds for the page of an item: the
\* n-th has the output_order f"{fac_id_unif}_{n:05d}" and the URL of the page
PageRecords(item) ==
    [n \in 1..Len(item.names) |->
        [fac_id_unif |-> item.fac_id_unif,
         output_order |-> <<item.fac_id_unif, n>>,
         department |-> Naika, name |-> item.names[n], position |-> <<>>,
         specialty |-> <<>>, licence |-> <<>>, others |-> <<>>,
         output_datetime |-> "t1", url |-> item.url]]

InitFinal ==
    /\ fin_items \in UNION {[1..n -> FinalItems] : n \in 1..MaxFinalItems}
    /\ fin_index = 1
    /\ fin_records = <<>>
    /\ fin_saved = <<>>
    /\ fin_pc = "items"

IdleFinal ==
    /\ fin_items = <<>>
    /\ fin_index = 1
    /\ fin_records = <<>>
    /\ fin_saved = <<>>
    /\ fin_pc = "idle"

\* _process_single_url_async returns _remove_duplicate_records of the page's
\* records and _record_success extends all_records with them
FinalItemSucceeds ==
    /\ fin_pc = "items"
    /\ fin_index <= Len(fin_items)
    /\ fin_records' = fin_records
          \o remove_duplicate_records(PageRecords(fin_items[fin_index]))
    /\ fin_index' = fin_index + 1
    /\ UNCHANGED <<fin_items, fin_saved, fin_pc>>

\* _process_single_url_async raises: _record_failure, no record
FinalItemFails ==
    /\ fin_pc = "items"
    /\ fin_index <= Len(fin_items)
    /\ fin_index' = fin_index + 1
    /\ UNCHANGED <<fin_items, fin_records, fin_saved, fin_pc>>

\* save_results: upload_tsv(self.all_records)
FinalSave ==
    /\ fin_pc = "items"
    /\ fin_index > Len(fin_items)
    /\ fin_saved' = upload_tsv(fin_records)
    /\ fin_pc' = "saved"
    /\ UNCHANGED <<fin_items, fin_index, fin_records>>

(***************************************************************************)
(* The ids of the records of one item: the AI response names a facility id *)
(* of its own in each row; _call_ai_for_classification (url_collector.py), *)
(* _parse_simple_response (ai_client_simple.py,                            *)
(* ai_client_outpatient_simple.py) and _process_outpatient_record          *)
(* (outpatient.py) decide which id the record carries.                     *)
(***************************************************************************)
MaxOriginRows == 2

\* str(row['fac_id_unif']) of the rows of the shard
ShardIds == {"f1", "f2"}

\* the sample id the outpatient parser replaces by the context's id
SampleFacId == "123456789"

\* the ids a response row may name: none, the sample id, the id of a
\* facility outside the shard, the ids of the shard
ServiceIds == {"", SampleFacId, "f9"} \cup ShardIds

OriginRows == [fac_id_unif : ServiceIds, department : {Naika, <<>>}]

InitOrigin ==
    /\ og_job \in {"url_collect", "doctor_info", "outpatient"}
    /\ og_item \in [fac_id_unif : ShardIds, url : {"u1"}]
    /\ og_response \in UNION {[1..n -> OriginRows] : n \in 0..MaxOriginRows}
    /\ og_pc = "call"
    /\ og_records = <<>>
    /\ og_failures = <<>>

IdleOrigin ==
    /\ og_job = "none"
    /\ og_item = <<>>
    /\ og_response = <<>>
    /\ og_pc = "idle"
    /\ og_records = <<>>
    /\ og_failures = <<>>

\* AIFailureRecorder.record_failure(url, fac_id_unif, failure_reason, ...)
FailureRecord(url, fac_id_unif, reason) ==
    [url |-> url, fac_id_unif |-> fac_id_unif, failure_reason |-> reason]

\* _call_ai_for_classification: the result is built from the first record
\* with the fac_id_unif and url of the call; without records a FailureRecord
\* with the reason EMPTY_RESPONSE is recorded
OriginClassifyUrl ==
    /\ og_job = "url_collect"
    /\ og_pc = "call"
    /\ IF og_response # <<>>
       THEN /\ og_records' = <<[fac_id_unif |-> og_item.fac_id_unif,
                                url |-> og_item.url,
                                department |-> og_response[1].department]>>
            /\ UNCHANGED og_failures
       ELSE /\ og_failures' = <<FailureRecord(og_item.url, og_item.fac_id_unif,
                                              "EMPTY_RESPONSE")>>
            /\ UNCHANGED og_records
    /\ og_pc' = "returned"
    /\ UNCHANGED <<og_job, og_item, og_response>>

\* SimpleDoctorInfoAIClient._parse_simple_response: 'fac_id_unif':
\* context.get('fac_id_unif', ''); validation and duplicate removal keep it
OriginDoctorInfo ==
    /\ og_job = "doctor_info"
    /\ og_pc = "call"
    /\ og_records' = [n \in 1..Len(og_response) |->
                         [fac_id_unif |-> og_item.fac_id_unif,
                          url |-> og_item.url,
                          department |-> IF og_response[n].department # <<>>
                                         THEN og_response[n].department
                                         ELSE DefaultDepartment]]
    /\ og_pc' = "returned"
    /\ UNCHANGED <<og_job, og_item, og_response, og_failures>>

\* SimpleOutpatientAIClient._parse_simple_response: the id of the row unless
\* it is empty or the sample id; rows without a department are skipped
RECURSIVE OutpatientParseIdsFrom(_, _, _)
OutpatientParseIdsFrom(rows, context, i) ==
    IF i > Len(rows) THEN <<>>
    ELSE IF rows[i].department = <<>>
         THEN OutpatientParseIdsFrom(rows, context, i + 1)
    ELSE <<[fac_id_unif |-> IF rows[i].fac_id_unif \in {"", SampleFacId}
                            THEN context.fac_id_unif
                            ELSE rows[i].fac_id_unif,
            department |-> rows[i].department]>>
            \o OutpatientParseIdsFrom(rows, context, i + 1)

OriginOutpatientParse ==
    /\ og_job = "outpatient"
    /\ og_pc = "call"
    /\ og_records' = OutpatientParseIdsFrom(og_response, og_item, 1)
    /\ og_pc' = "parsed"
    /\ UNCHANGED <<og_job, og_item, og_response, og_failures>>

\* the record as the parser built it
ParsedOutpatientRecord(record, fac_id_unif, url) == record

\* OutpatientProcessor._process_outpatient_record(record, fac_id_unif, url)
process_outpatient_record(record, fac_id_unif, url) ==
    [fac_id_unif |-> fac_id_unif, department |-> record.department,
     url_single_table |-> url]

\* _process_as_html: the loop over _process_outpatient_record and the return
OriginOutpatientProcess ==
    /\ og_job = "outpatient"
    /\ og_pc = "parsed"
    /\ og_records' = [n \in 1..Len(og_records) |->
                         process_outpatient_record(og_records[n],
                                                   og_item.fac_id_unif,
                                                   og_item.url)]
    /\ og_pc' = "returned"
    /\ UNCHANGED <<og_job, og_item, og_response, og_failures>>

(***************************************************************************)
(* UnifiedAIClient._call_ai_api (ai_client.py): the call runs in a daemon  *)
(* thread that writes the dict result of its call; the caller polls        *)
(* result['completed'] every half second until ai_timeout has passed.      *)
(***************************************************************************)
MaxCalls == 2

Calls == 1..MaxCalls

\* generate_content returns a response, raises an exception with a message,
\* or raises one whose str() is empty (TimeoutError())
ServiceBehaviours == {"response", "error", "error_without_message"}

\* result = {'response': None, 'error': None, 'completed': False}
NewResult == [response |-> "None", error |-> "None", completed |-> FALSE]

\* ai_call(): what the thread has written when it ends
ai_call(behaviour) ==
    CASE behaviour = "response" ->
            [response |-> "text", error |-> "None", completed |-> TRUE]
      [] behaviour = "error" ->
            [response |-> "None", error |-> "message", completed |-> TRUE]
      [] behaviour = "error_without_message" ->
            [response |-> "None", error |-> "", completed |-> TRUE]

\* "if result['error']": None and the empty string are false
Truthy(value) == value \notin {"None", ""}

\* the lines after the polling loop: what _call_ai_api raises or returns
CallOutcome(result) ==
    IF ~result.completed THEN [kind |-> "raised", value |-> "TimeoutError"]
    ELSE IF Truthy(result.error) THEN [kind |-> "raised", value |-> "Exception"]
    ELSE [kind |-> "returned", value |-> result.response]

Pending == [kind |-> "pending", value |-> "None"]

InitCalls ==
    /\ ca_service \in [Calls -> ServiceBehaviours]
    /\ ca_thread = [c \in Calls |-> "running"]
    /\ ca_result = [c \in Calls |-> NewResult]
    /\ ca_deadline_passed = [c \in Calls |-> FALSE]
    /\ ca_in_time = [c \in Calls |-> FALSE]
    /\ ca_pc = [c \in Calls |-> "polling"]
    /\ ca_outcome = [c \in Calls |-> Pending]

IdleCalls ==
    /\ ca_service = <<>>
    /\ ca_thread = <<>>
    /\ ca_result = <<>>
    /\ ca_deadline_passed = <<>>
    /\ ca_in_time = <<>>
    /\ ca_pc = <<>>
    /\ ca_outcome = <<>>

\* the thread of call c ends, whether or not its caller still waits
ThreadEnds(c) ==
    /\ ca_thread[c] = "running"
    /\ ca_thread' = [ca_thread EXCEPT ![c] = "finished"]
    /\ ca_result' = [ca_result EXCEPT ![c] = ai_call(ca_service[c])]
    /\ ca_in_time' = [ca_in_time EXCEPT ![c] = ~ca_deadline_passed[c]]
    /\ UNCHANGED <<ca_service, ca_deadline_passed, ca_pc, ca_outcome>>

\* ai_timeout seconds have passed since the start of call c
DeadlinePasses(c) ==
    /\ ~ca_deadline_passed[c]
    /\ ca_deadline_passed' = [ca_deadline_passed EXCEPT ![c] = TRUE]
    /\ UNCHANGED <<ca_service, ca_thread, ca_result, ca_in_time, ca_pc,
                   ca_outcome>>

\* "while not result['completed'] and elapsed < ai_timeout: time.sleep(0.5)":
\* the caller wakes up and leaves the loop
LeaveLoop(c) ==
    /\ ca_pc[c] = "polling"
    /\ ca_result[c].completed \/ ca_deadline_passed[c]
    /\ ca_pc' = [ca_pc EXCEPT ![c] = "checking"]
    /\ UNCHANGED <<ca_service, ca_thread, ca_result, ca_deadline_passed,
                   ca_in_time, ca_outcome>>

\* the checks after the loop: TimeoutError, Exception or the return
ReportOutcome(c) ==
    /\ ca_pc[c] = "checking"
    /\ ca_outcome' = [ca_outcome EXCEPT ![c] = CallOutcome(ca_result[c])]
    /\ ca_pc' = [ca_pc EXCEPT ![c] = "done"]
    /\ UNCHANGED <<ca_service, ca_thread, ca_result, ca_deadline_passed,
                   ca_in_time>>

(***************************************************************************)
(* UnifiedAIClient._create_record_from_fields (ai_client.py) with job type *)
(* doctor_info: the fields of one tab-separated line become a record, and  *)
(* the position and the name are exchanged by the position patterns.  A    *)
(* text is a sequence of tokens: "incho" is 院長, "bucho" is 部長,         *)
(* "yamada" is any other text and "http" is the text http.                 *)
(***************************************************************************)
MaxFieldLen == 2

FieldTokens == {"incho", "bucho", "yamada", "http"}

FieldTexts == UNION {[1..n -> FieldTokens] : n \in 0..MaxFieldLen}

\* the fields after the name: none, a URL, a specialty, a specialty and a URL
RestFields == {<<>>, <<(<<"http">>)>>, <<(<<"yamada">>)>>,
               <<(<<"yamada">>), (<<"http">>)>>}

\* the lines _parse_ai_response passes on: three fields, or four and more
FieldLists ==
    {<<(<<"yamada">>), (<<"yamada">>), position>> : position \in FieldTexts}
       \cup {<<(<<"yamada">>), (<<"yamada">>), pn[1], pn[2]>> \o rest :
                pn \in FieldTexts \X FieldTexts, rest \in RestFields}

\* text.startswith('http')
StartsWithHttp(text) == Len(text) > 0 /\ text[1] = "http"

\* position_patterns, matched with re.match: r'^院長$' and the other titles
\* that are matched whole, r'^.+部長$' and the other endings that need a
\* text before them
MatchesPositionPattern(text) ==
    \/ text = <<"incho">>
    \/ Len(text) >= 2 /\ text[Len(text)] = "bucho"

\* remaining_fields: fields[4:], without a URL in the last field
remaining_fields(fields) ==
    IF Len(fields) > 4
    THEN IF StartsWithHttp(fields[Len(fields)])
         THEN IF Len(fields) > 5 THEN SubSeq(fields, 5, Len(fields) - 1)
              ELSE <<>>
         ELSE SubSeq(fields, 5, Len(fields))
    ELSE <<>>

\* if name_is_position or (not position_matched and len(position) > 0
\*                         and not position.startswith('http'))
Exchanged(position, name) ==
    \/ MatchesPositionPattern(name)
    \/ /\ ~MatchesPositionPattern(position)
       /\ Len(position) > 0
       /\ ~StartsWithHttp(position)

\* _create_record_from_fields(fields, context, current_time): None for
\* fewer than four fields; "import re" stands in the block of
\* "if remaining_fields:", so that re is a local name of the function and
\* re.match raises UnboundLocalError when remaining_fields is empty
create_record_from_fields(fields) ==
    IF Len(fields) < 4 THEN [kind |-> "None"]
    ELSE IF remaining_fields(fields) = <<>>
    THEN [kind |-> "raised", error |-> "UnboundLocalError"]
    ELSE LET position == fields[3]
             name == fields[4]
         IN  [kind |-> "record",
              output_order |-> fields[1],
              department |-> fields[2],
              position |-> IF Exchanged(position, name) THEN name ELSE position,
              name |-> IF Exchanged(position, name) THEN position ELSE name]

InitRecord ==
    /\ rf_fields \in FieldLists
    /\ rf_result = [kind |-> "pending"]
    /\ rf_pc = "ready"

IdleRecord ==
    /\ rf_fields = <<>>
    /\ rf_result = [kind |-> "pending"]
    /\ rf_pc = "idle"

\* record = self._create_record_from_fields(fields, context, current_time)
CreateRecord ==
    /\ rf_pc = "ready"
    /\ rf_result' = create_record_from_fields(rf_fields)
    /\ rf_pc' = "done"
    /\ UNCHANGED rf_fields

(***************************************************************************)
(* Specifications                                                          *)
(***************************************************************************)
NextPartition == ComputeChunk /\ UNCHANGED notPartVars

InitSpecPartition ==
    InitPartition /\ IdleDispatch /\ IdleDecode /\ IdleDedup /\ IdleExtract
       /\ IdleCrawl /\ IdleRun /\ IdleAi /\ IdleStats /\ IdleFinal /\ IdleOrigin /\ IdleCalls /\ IdleRecord

SpecPartition == InitSpecPartition /\ [][NextPartition]_vars

NextPartitionCall == CallPartition /\ UNCHANGED notPartVars

InitSpecPartitionCall ==
    InitPartitionCall /\ IdleDispatch /\ IdleDecode /\ IdleDedup /\ IdleExtract
       /\ IdleCrawl /\ IdleRun /\ IdleAi /\ IdleStats /\ IdleFinal /\ IdleOrigin /\ IdleCalls /\ IdleRecord

SpecPartitionCall == InitSpecPartitionCall /\ [][NextPartitionCall]_vars

NextDispatch ==
    \/ \E i \in 1..N : StartBase(i) /\ TaskFrame /\ UNCHANGED notDispVars
    \/ \E i \in 1..N : StartExtraction(i) /\ TaskFrame /\ UNCHANGED notDispVars
    \/ \E i \in 1..N : FetchDoneDoctorInfo(i) /\ TaskFrame /\ UNCHANGED notDispVars
    \/ \E i \in 1..N : FetchDoneOutpatient(i) /\ TaskFrame /\ UNCHANGED notDispVars
    \/ \E i \in 1..N : StartValidation(i) /\ TaskFrame /\ UNCHANGED notDispVars
    \/ \E i \in 1..N : FetchDoneValidation(i) /\ TaskFrame /\ UNCHANGED notDispVars
    \/ Gather /\ UNCHANGED notDispVars

InitSpecDispatch ==
    InitDispatch /\ IdlePartition /\ IdleDecode /\ IdleDedup /\ IdleExtract
       /\ IdleCrawl /\ IdleRun /\ IdleAi /\ IdleStats /\ IdleFinal /\ IdleOrigin /\ IdleCalls /\ IdleRecord

SpecDispatch == InitSpecDispatch /\ [][NextDispatch]_vars

NextDecode ==
    \/ TryTabSeparated /\ UNCHANGED notDecVars
    \/ TrySpaceSeparated /\ UNCHANGED notDecVars
    \/ TryRegex /\ UNCHANGED notDecVars
    \/ TryCommaSeparated /\ UNCHANGED notDecVars
    \/ TryNaturalLanguage /\ UNCHANGED notDecVars

InitSpecDecode ==
    InitDecode /\ IdlePartition /\ IdleDispatch /\ IdleDedup /\ IdleExtract
       /\ IdleCrawl /\ IdleRun /\ IdleAi /\ IdleStats /\ IdleFinal /\ IdleOrigin /\ IdleCalls /\ IdleRecord

SpecDecode == InitSpecDecode /\ [][NextDecode]_vars

NextDedup == RemoveDuplicateRecords /\ UNCHANGED notDdVars

InitSpecDedup ==
    InitDedup /\ IdlePartition /\ IdleDispatch /\ IdleDecode /\ IdleExtract
       /\ IdleCrawl /\ IdleRun /\ IdleAi /\ IdleStats /\ IdleFinal /\ IdleOrigin /\ IdleCalls /\ IdleRecord

SpecDedup == InitSpecDedup /\ [][NextDedup]_vars

NextExtract ==
    \/ DoctorInfoParse /\ UNCHANGED notExVars
    \/ DoctorInfoValidateHtml /\ UNCHANGED notExVars
    \/ DoctorInfoRemoveDuplicates /\ UNCHANGED notExVars
    \/ OutpatientParse /\ UNCHANGED notExVars
    \/ OutpatientProcessRecords /\ UNCHANGED notExVars

InitSpecExtract ==
    InitExtract /\ IdlePartition /\ IdleDispatch /\ IdleDecode /\ IdleDedup
       /\ IdleCrawl /\ IdleRun /\ IdleAi /\ IdleStats /\ IdleFinal /\ IdleOrigin /\ IdleCalls /\ IdleRecord

SpecExtract == InitSpecExtract /\ [][NextExtract]_vars

NextCrawl ==
    \/ SkipVisitedOrDeep /\ UNCHANGED notCrVars
    \/ SkipNotCrawlable /\ UNCHANGED notCrVars
    \/ FetchFailed /\ UNCHANGED notCrVars
    \/ VisitPage /\ UNCHANGED notCrVars
    \/ VisitPageExtractionRaises /\ UNCHANGED notCrVars
    \/ FinishCrawl /\ UNCHANGED notCrVars

InitSpecCrawl ==
    InitCrawl /\ IdlePartition /\ IdleDispatch /\ IdleDecode /\ IdleDedup
       /\ IdleExtract /\ IdleRun /\ IdleAi /\ IdleStats /\ IdleFinal /\ IdleOrigin /\ IdleCalls /\ IdleRecord

SpecCrawl == InitSpecCrawl /\ [][NextCrawl]_vars

\* every iteration of the crawl loop ends (the fetch has a total timeout,
\* http_client.py line 37, and the sleep is finite), so the loop keeps taking
\* steps while it can
SpecCrawlFair == SpecCrawl /\ WF_vars(NextCrawl)

NextRun ==
    \/ MainFromEnv /\ UNCHANGED notRunVars
    \/ MainValidate /\ UNCHANGED notRunVars
    \/ RunFetchInput /\ UNCHANGED notRunVars
    \/ RunFetchPrompt /\ UNCHANGED notRunVars
    \/ RunFacility /\ UNCHANGED notRunVars
    \/ RunStartBatch /\ UNCHANGED notRunVars
    \/ /\ run_pc = "batch"
       /\ \E i \in 1..N : StartExtraction(i) /\ TaskFrame /\ UNCHANGED notDispVars
    \/ /\ run_pc = "batch"
       /\ \E i \in 1..N : FetchDoneDoctorInfo(i) /\ TaskFrame /\ UNCHANGED notDispVars
    \/ run_pc = "batch" /\ Gather /\ UNCHANGED notDispVars
    \/ RunBatchDone /\ UNCHANGED notRunVars
    \/ RunFallbackItem /\ UNCHANGED notRunVars
    \/ RunFallbackDone /\ UNCHANGED notRunVars
    \/ RunProcessed /\ UNCHANGED notRunVars
    \/ RunSave /\ UNCHANGED notRunVars
    \/ RunLogFinalStats /\ UNCHANGED notRunVars
    \/ RunFinally /\ UNCHANGED notRunVars
    \/ MainInterrupt /\ UNCHANGED notRunVars
    \/ MainReturn /\ UNCHANGED notRunVars

InitSpecRun ==
    InitRun /\ IdlePartition /\ IdleDispatch /\ IdleDecode /\ IdleDedup
       /\ IdleExtract /\ IdleCrawl /\ IdleAi /\ IdleStats /\ IdleFinal /\ IdleOrigin /\ IdleCalls /\ IdleRecord

SpecRun == InitSpecRun /\ [][NextRun]_vars

NextAi ==
    \/ UnifiedAttempt /\ UNCHANGED notAiVars
    \/ SimpleAttempt /\ UNCHANGED notAiVars
    \/ SimpleWaitEnds /\ UNCHANGED notAiVars

InitSpecAi ==
    InitAi /\ IdlePartition /\ IdleDispatch /\ IdleDecode /\ IdleDedup
       /\ IdleExtract /\ IdleCrawl /\ IdleRun /\ IdleStats /\ IdleFinal /\ IdleOrigin /\ IdleCalls /\ IdleRecord

SpecAi == InitSpecAi /\ [][NextAi]_vars

NextStats ==
    \/ UpdateSuccess /\ UNCHANGED notStatVars
    \/ UpdateFailure /\ UNCHANGED notStatVars
    \/ ClassifyWithoutCall /\ UNCHANGED notStatVars
    \/ FacilityDone /\ UNCHANGED notStatVars
    \/ FinalCleanup /\ UNCHANGED notStatVars

InitSpecStats ==
    InitStats /\ IdlePartition /\ IdleDispatch /\ IdleDecode /\ IdleDedup
       /\ IdleExtract /\ IdleCrawl /\ IdleRun /\ IdleAi /\ IdleFinal /\ IdleOrigin /\ IdleCalls /\ IdleRecord

SpecStats == InitSpecStats /\ [][NextStats]_vars

NextFinal ==
    \/ FinalItemSucceeds /\ UNCHANGED notFinVars
    \/ FinalItemFails /\ UNCHANGED notFinVars
    \/ FinalSave /\ UNCHANGED notFinVars

InitSpecFinal ==
    InitFinal /\ IdlePartition /\ IdleDispatch /\ IdleDecode /\ IdleDedup
       /\ IdleExtract /\ IdleCrawl /\ IdleRun /\ IdleAi /\ IdleStats /\ IdleOrigin /\ IdleCalls /\ IdleRecord

SpecFinal == InitSpecFinal /\ [][NextFinal]_vars

NextOrigin ==
    \/ OriginClassifyUrl /\ UNCHANGED notOgVars
    \/ OriginDoctorInfo /\ UNCHANGED notOgVars
    \/ OriginOutpatientParse /\ UNCHANGED notOgVars
    \/ OriginOutpatientProcess /\ UNCHANGED notOgVars

InitSpecOrigin ==
    InitOrigin /\ IdlePartition /\ IdleDispatch /\ IdleDecode /\ IdleDedup
       /\ IdleExtract /\ IdleCrawl /\ IdleRun /\ IdleAi /\ IdleStats
       /\ IdleFinal /\ IdleCalls /\ IdleRecord

SpecOrigin == InitSpecOrigin /\ [][NextOrigin]_vars

NextCalls ==
    \/ \E c \in Calls : ThreadEnds(c) /\ UNCHANGED notCaVars
    \/ \E c \in Calls : DeadlinePasses(c) /\ UNCHANGED notCaVars
    \/ \E c \in Calls : LeaveLoop(c) /\ UNCHANGED notCaVars
    \/ \E c \in Calls : ReportOutcome(c) /\ UNCHANGED notCaVars

InitSpecCalls ==
    InitCalls /\ IdlePartition /\ IdleDispatch /\ IdleDecode /\ IdleDedup
       /\ IdleExtract /\ IdleCrawl /\ IdleRun /\ IdleAi /\ IdleStats
       /\ IdleFinal /\ IdleOrigin /\ IdleRecord

SpecCalls == InitSpecCalls /\ [][NextCalls]_vars

NextRecord == CreateRecord /\ UNCHANGED notRfVars

InitSpecRecord ==
    InitRecord /\ IdlePartition /\ IdleDispatch /\ IdleDecode /\ IdleDedup
       /\ IdleExtract /\ IdleCrawl /\ IdleRun /\ IdleAi /\ IdleStats
       /\ IdleFinal /\ IdleOrigin /\ IdleCalls

SpecRecord == InitSpecRecord /\ [][NextRecord]_vars

(***************************************************************************)
(* Claims                                                                  *)
(***************************************************************************)
ChunkRows(c) == {r \in 0..(total_items - 1) : c[1] <= r /\ r < c[2]}

ChunkSize(c) == c[2] - c[1]

\* C1: once every task index 0..task_count-1 has computed its range, the
\* ranges are contiguous (each starts where the previous one ends, the first
\* at 0, the last ending at total), pairwise disjoint, their union is
\* [0, total), any two sizes differ by at most 1, and get_task_data selects
\* exactly the rows of the range.
C1_PartitionCovers ==
    (task_index = task_count) =>
        /\ Len(chunks) = task_count
        /\ chunks[1][1] = 0
        /\ chunks[task_count][2] = total_items
        /\ \A i \in 1..task_count : chunks[i][1] <= chunks[i][2]
        /\ \A i \in 1..(task_count - 1) : chunks[i][2] = chunks[i + 1][1]
        /\ \A i, j \in 1..task_count :
              i # j => ChunkRows(chunks[i]) \cap ChunkRows(chunks[j]) = {}
        /\ UNION {ChunkRows(chunks[i]) : i \in 1..task_count}
              = 0..(total_items - 1)
        /\ \A i, j \in 1..task_count :
              ChunkSize(chunks[i]) - ChunkSize(chunks[j]) \in {-1, 0, 1}
        /\ \A i \in 1..task_count : slices[i] = ChunkRows(chunks[i])

\* a run with a remainder: 7 rows over 3 tasks, all three ranges computed
C1_Witness ==
    /\ total_items = 7
    /\ task_count = 3
    /\ task_index = task_count
    /\ chunks = <<(<<0, 3>>), (<<3, 5>>), (<<5, 7>>)>>

InSection == {i \in 1..N : task_pc[i] = "fetching"}

\* C2: in every batch dispatch (doctor_info, outpatient, validation and the
\* base dispatcher), whatever the batch and the interleaving of the item
\* tasks, at most max_concurrent_requests items are inside the semaphore
\* section (waiting for a fetch / extraction call) at any instant, and the
\* permits left plus the items inside always add up to the limit.
C2_AtMostCInFlight ==
    /\ Cardinality(InSection) <= max_concurrent_requests
    /\ sem_value + Cardinality(InSection) = max_concurrent_requests

\* the limit is reached while another item still waits for a permit
C2_Witness ==
    /\ job_type = "doctor_info"
    /\ max_concurrent_requests = 2
    /\ Cardinality(InSection) = 2
    /\ \E i \in 1..N : task_pc[i] = "pending"

FailedPositions == {i \in 1..N : task_result[i].kind # "list"}

FailureMessage(r) ==
    IF r.kind = "exception" THEN r.msg ELSE <<"unexpected result format">>

\* C3: after the result loop of a batch of N items (base, doctor_info and
\* outpatient dispatch), exactly N outcomes are recorded: total_processed = N,
\* successful counts the items that returned a list, failed the others; the
\* failure keys are exactly the keys of the failed items, each holding the
\* message of a failed item with that key, whatever the completion order.
C3_OneOutcomePerItem ==
    (gathered /\ job_type # "doctor_info_validation") =>
        /\ stats.total_processed = N
        /\ stats.failed = Cardinality(FailedPositions)
        /\ stats.successful = N - Cardinality(FailedPositions)
        /\ DOMAIN failed_items = {FailureKey(batch_items[i]) : i \in FailedPositions}
        /\ \A i \in FailedPositions :
              failed_items[FailureKey(batch_items[i])] \in
                  {FailureMessage(task_result[j]) :
                      j \in {k \in FailedPositions :
                                FailureKey(batch_items[k]) = FailureKey(batch_items[i])}}

\* three items complete out of batch order (the last one first), the first
\* one failing and the others succeeding, and the result loop has run
C3_Witness ==
    /\ gathered
    /\ job_type = "doctor_info"
    /\ N = 3
    /\ completed = <<3, 1, 2>>
    /\ task_result[1].kind = "exception"
    /\ task_result[2].kind = "list"
    /\ task_result[3].kind = "list"
    /\ stats.total_processed = 3
    /\ stats.failed = 1

(***************************************************************************)
(* C4.  _parse_ai_response_robust returns a ValidationResult for every     *)
(* response text: it is always at one of its five stages, each of which    *)
(* can be tried, or has returned; when it has returned, exactly one of the *)
(* five stages is recorded as having succeeded, the result is that         *)
(* stage's, and no parsing failure has been counted.                       *)
(***************************************************************************)
C4_DecoderTotal ==
    /\ dec_pc \in Range(Stages) \cup {"done"}
    /\ dec_pc = "done" =>
          /\ dec_result.parsed
          /\ Cardinality({k \in 1..Len(Stages) :
                             Contains(parsing_attempts, Stages[k])}) = 1
          /\ Len(parsing_attempts) = 1
          /\ dec_result = StageResult(parsing_attempts[1], response_text)
          /\ validation_stats.parsing_failures = 0

\* a text without any keyword went through all five stages and the last one
\* returned NOTFOUND
C4_Witness ==
    /\ dec_pc = "done"
    /\ response_text = <<"ok">>
    /\ dec_trace = Stages
    /\ parsing_attempts = <<"natural_language">>
    /\ dec_result.validation_status = <<"NOTFOUND">>

IsPrefix(a, b) == Len(a) <= Len(b) /\ a = SubSeq(b, 1, Len(a))

(***************************************************************************)
(* C5.  The stages are tried in the order tab-separated, multi-space,      *)
(* regular expression, comma-separated, natural language, and the result   *)
(* returned is that of the first stage that produces one: every stage      *)
(* tried before it produced nothing, and no later stage is tried.          *)
(***************************************************************************)
C5_FirstSuccessInOrder ==
    /\ IsPrefix(dec_trace, Stages)
    /\ \A k \in 1..Len(dec_trace) :
          (k < Len(dec_trace) \/ dec_pc # "done")
             => StageResult(Stages[k], response_text) = NoParse
    /\ dec_pc = "done" =>
          /\ dec_trace # <<>>
          /\ parsing_attempts = <<Stages[Len(dec_trace)]>>
          /\ dec_result = StageResult(Stages[Len(dec_trace)], response_text)
          /\ dec_result # NoParse

\* the multi-space stage returned a row that the regex, comma and
\* natural-language stages would each have decoded, too
C5_Witness ==
    /\ dec_pc = "done"
    /\ parsing_attempts = <<"space_separated">>
    /\ dec_result.validation_status = <<"VALID", "COLON">>
    /\ try_regex_parsing(response_text) # NoParse
    /\ try_comma_separated_parsing(response_text) = NoParse
    /\ dec_trace = <<"tab_separated", "space_separated">>

\* the first line of the response that holds a tab, <<>> if there is none
FirstTabLine(text) ==
    LET lines == Split(text, "NL")
        hits == {i \in 1..Len(lines) : Contains(lines[i], "TAB")}
    IN  IF hits = {} THEN <<>> ELSE lines[MinOf(hits)]

(***************************************************************************)
(* C6.  When the first line of the response that holds a tab has at least  *)
(* three tab-separated fields, stage 1 returns status = field 1, message = *)
(* field 2, name = field 3, department = field 4, position = field 5,      *)
(* specialty = field 6, licence = field 7, others = field 8, the missing   *)
(* trailing fields being empty.                                            *)
(***************************************************************************)
C6_TabFieldsByPosition ==
    (/\ dec_trace # <<>>
     /\ Len(Split(FirstTabLine(response_text), "TAB")) >= MinTabFields)
    => /\ dec_pc = "done"
       /\ parsing_attempts = <<"tab_separated">>
       /\ dec_result =
             ResultOfParts(PadTo(Split(FirstTabLine(response_text), "TAB"),
                                 SchemaFields))

NonVolatileFields ==
    {"department", "name", "position", "specialty", "licence", "others"}

\* two records that differ at most in identifier and timestamp fields
DifferOnlyInVolatile(r1, r2) == \A f \in NonVolatileFields : r1[f] = r2[f]

\* the positions of records whose record has the signature of records[i]
SameSignature(records, i) ==
    {k \in 1..Len(records) :
        create_record_signature(records[k]) = create_record_signature(records[i])}

(***************************************************************************)
(* C7.  The signature of a record does not change with its output_order,   *)
(* output_datetime or fac_id_unif; of two records that differ only in such *)
(* fields _remove_duplicate_records returns exactly one, the one that      *)
(* comes first in the argument list, whichever of the two that is.         *)
(***************************************************************************)
C7_SignatureIgnoresVolatile ==
    /\ \A i \in 1..Len(dd_records) :
          \A order \in 1..MaxRecords, datetime \in {"t1", "t2"}, fac \in {"f1", "f2"} :
             create_record_signature(
                [dd_records[i] EXCEPT !.output_order = <<fac, order>>,
                                      !.output_datetime = datetime,
                                      !.fac_id_unif = fac])
                = create_record_signature(dd_records[i])
    /\ dd_pc = "returned" =>
          \A i, j \in 1..Len(dd_records) :
             (i < j /\ DifferOnlyInVolatile(dd_records[i], dd_records[j])) =>
                /\ create_record_signature(dd_records[i])
                      = create_record_signature(dd_records[j])
                /\ LET first == MinOf(SameSignature(dd_records, i))
                       kept == {k \in 1..Len(dd_result) :
                                   create_record_signature(dd_result[k])
                                      = create_record_signature(dd_records[i])}
                   IN  /\ Cardinality(kept) = 1
                       /\ \A k \in kept : dd_result[k] = dd_records[first]

\* the record numbered 2 came before the record numbered 1 that differs from
\* it in its number and time only, and it is the one returned
C7_Witness ==
    /\ dd_pc = "returned"
    /\ Len(dd_records) = 2
    /\ DifferOnlyInVolatile(dd_records[1], dd_records[2])
    /\ dd_records[1].output_order = <<"f1", 2>>
    /\ dd_records[2].output_order = <<"f1", 1>>
    /\ dd_records[1].output_datetime # dd_records[2].output_datetime
    /\ dd_result = <<dd_records[1]>>

\* the person-name field of a returned record
PersonName(record) ==
    IF ex_job = "doctor_info" THEN record.name ELSE record.doctors_name

(***************************************************************************)
(* C8.  No record whose person-name field is 山田太郎 is among the records   *)
(* returned for an item, for the doctor_info and the outpatient job types. *)
(***************************************************************************)
C8_NoPlaceholderNameReturned ==
    ex_pc = "returned" =>
       \A k \in 1..Len(ex_records) : PersonName(ex_records[k]) # YamadaTaro

(***************************************************************************)
(* C9.  In every state of the crawl of one facility, every page that was   *)
(* fetched was fetched at a depth of at most max_depth, and the number of  *)
(* pages marked visited, which is page_count, is at most                   *)
(* max_pages_per_facility.                                                 *)
(***************************************************************************)
C9_DepthAndBudgetRespected ==
    /\ \A f \in fetch_log : f[2] <= max_depth
    /\ Cardinality(visited_urls) <= max_pages_per_facility
    /\ page_count = Cardinality(visited_urls)

\* the budget is used up at a page fetched at the depth limit while URLs
\* are still queued
C9_Witness ==
    /\ cr_pc = "done"
    /\ url_queue # <<>>
    /\ max_pages_per_facility >= 2
    /\ Cardinality(visited_urls) = max_pages_per_facility
    /\ max_depth >= 1
    /\ \E f \in fetch_log : f[2] = max_depth /\ f[1] \in visited_urls

\* the URLs of a page's <a> tags that urljoin accepts and the crawl filter lets pass
LinkTargets(url) ==
    {u \in {urljoin(url, h) : h \in cr_site[url].links \ {MalformedHref}} :
        should_crawl_url(u, domain)}

\* the URLs at the end of a chain of at most k links from the seed through
\* pages that were fetched successfully
RECURSIVE ReachableWithin(_)
ReachableWithin(k) ==
    IF k = 0 THEN {base_url}
    ELSE ReachableWithin(k - 1) \cup
            UNION {LinkTargets(u) : u \in ReachableWithin(k - 1) \cap visited_urls}

(***************************************************************************)
(* C10.  When the crawl has ended with the page budget not reached, every  *)
(* URL that passes the crawl filter, is within max_depth links of the seed *)
(* through successfully fetched pages, was itself fetched successfully and *)
(* is a doctor/schedule page by _is_doctor_or_schedule_page is in the      *)
(* found set.                                                              *)
(***************************************************************************)
C10_ReachableDoctorPagesFound ==
    (cr_pc = "done" /\ page_count < max_pages_per_facility) =>
       \A u \in ReachableWithin(max_depth) :
          (/\ should_crawl_url(u, domain)
           /\ u \in visited_urls
           /\ is_doctor_or_schedule_page(cr_site[u], u))
          => u \in found_urls

\* C11: whatever the site and whichever fetches succeed, fail or raise, the
\* crawl loop of a facility ends: eventually the queue is empty or the page
\* budget is reached, and the found set is returned.
C11_CrawlTerminates ==
    <>(/\ cr_pc = "done"
       /\ \/ url_queue = <<>>
          \/ page_count >= max_pages_per_facility)

C11_Witness ==
    /\ cr_pc = "done"
    /\ url_queue = <<>>
    /\ page_count < max_pages_per_facility
    /\ page_count >= 2
    /\ \E f \in fetch_log : f[1] \notin visited_urls

\* the rows processed so far whose processing did not end in a list of records
FailedRows == {k \in 1..Len(outcomes) : outcomes[k] # "list"}

\* the loop of process_data_async has ended by itself
ProcessingEnded ==
    \/ run_pc \in {"save", "stats"}
    \/ /\ run_pc \in {"finally", "return", "exit"}
       /\ save_attempted

RunEnded ==
    /\ run_pc \in {"return", "exit"}
    /\ run_error \notin {"from_env", "validate"}
    /\ ~interrupted

(***************************************************************************)
(* C13.  When a run has ended, the final statistics have been logged, and  *)
(* if it ended with an exception after records had been produced,          *)
(* save_results had been called before.                                    *)
(***************************************************************************)
C13_SavedAndStatsOnEveryPath ==
    RunEnded =>
       /\ final_stats_logged
       /\ (run_error # "none" /\ all_records # <<>>) => save_attempted

(***************************************************************************)
(* C14.  A call of the partition (calculate_chunk_range, get_task_data)    *)
(* with task_index >= task_count or task_count <= 0 raises a configuration *)
(* error and returns no range.                                             *)
(***************************************************************************)
C14_InvalidShardRaises ==
    (chunks # <<>> /\ (task_index >= task_count \/ task_count <= 0)) =>
       /\ chunks[1].kind = "raised"
       /\ slices[1].kind = "raised"
       /\ slices[1].error \in {"ConfigurationError", "ValueError"}

\* the configuration is one that Config.from_env or Config.validate rejects
ConfigInvalid == FromEnvRaises(env) \/ ValidateRaises(env)

(***************************************************************************)
(* C15.  With an invalid configuration main never starts a processor: no   *)
(* input table is read, no batch is dispatched, nothing is recorded, and   *)
(* main returns a code other than 0.  main returns 0 only when the         *)
(* processor ran to its end without an exception, and it returns 130       *)
(* exactly when it was interrupted.                                        *)
(***************************************************************************)
C15_InvalidConfigStartsNothing ==
    (run_pc # "idle") =>
       /\ ConfigInvalid =>
             /\ run_pc \in {"main", "loaded", "return", "exit"}
             /\ run_error \in {"none", "from_env", "validate"}
             /\ task_df = <<>>
             /\ batch_items = <<>>
             /\ task_pc = <<>>
             /\ stats = InitialStats
             /\ all_records = <<>>
             /\ ~save_attempted
             /\ run_pc = "exit" => exit_code \in {1, 130}
       /\ (run_pc = "exit" /\ exit_code = 0) =>
             /\ ~ConfigInvalid
             /\ run_error = "none"
             /\ ~interrupted
             /\ Len(outcomes) = Len(task_df)
             /\ task_df # <<>> => save_attempted /\ final_stats_logged
       /\ run_pc = "exit" => (exit_code = 130 <=> interrupted)
       /\ run_pc # "exit" => exit_code = 0 - 1

\* main has returned 1 for a task index equal to the task count, all the
\* other settings being valid
C15_Witness ==
    /\ run_pc = "exit"
    /\ exit_code = 1
    /\ ~FromEnvRaises(env)
    /\ env.PROJECT_ID # ""
    /\ env.INPUT_BUCKET # ""
    /\ env.CLOUD_RUN_TASK_COUNT = 1
    /\ env.CLOUD_RUN_TASK_INDEX = 1
    /\ run_error = "validate"
    /\ task_df = <<>>

(***************************************************************************)
(* C16.  When a remote extraction call is over, it has made at most        *)
(* max_retries attempts; if its first attempt failed with a permanent      *)
(* error it has made exactly one, and if it failed with a transient error  *)
(* (rate limit, server error) and max_retries allows a second attempt, it  *)
(* has made one.                                                           *)
(***************************************************************************)
C16_RetryOnlyTransient ==
    (ai_pc \in {"returned", "raised"}) =>
       /\ Len(ai_attempts) <= max_retries
       /\ ai_attempts[1] \in PermanentErrors => Len(ai_attempts) = 1
       /\ (ai_attempts[1] \in TransientErrors /\ max_retries >= 2)
             => Len(ai_attempts) >= 2

(***************************************************************************)
(* C17.  When an attempt of a remote extraction call has not completed     *)
(* within ai_timeout, the caller is not waiting for it any more, and when  *)
(* the call is over after such an attempt the failure is recorded with the *)
(* reason TIMEOUT_ERROR.                                                   *)
(***************************************************************************)
C17_TimeoutAbandonedAndRecorded ==
    (ai_attempts # <<>> /\ ai_attempts[Len(ai_attempts)] = "no_completion") =>
       /\ ai_pc # "waiting"
       /\ ai_pc \in {"returned", "raised"} => failure_reason = "TIMEOUT_ERROR"

(***************************************************************************)
(* C18.  The alert condition is evaluated after every update of the        *)
(* statistics: the statistics are not updated again, and the run does not  *)
(* end, while the failure rate of the last update is above the threshold   *)
(* and no alert for these statistics is logged; and every logged alert     *)
(* was emitted for a failure rate strictly above the threshold.            *)
(***************************************************************************)
AlertLoggedFor(total, failures) ==
    \E i \in 1..Len(alert_log) :
       alert_log[i] = [total_processed |-> total, ai_failure_count |-> failures]

C18_AlertEvaluatedOnEveryUpdate ==
    /\ [][(/\ total_processed > 0
           /\ AboveThreshold(ai_failure_count, total_processed, threshold_pct)
           /\ total_processed' # total_processed)
             => AlertLoggedFor(total_processed, ai_failure_count)]_vars
    /\ [](\A i \in 1..Len(alert_log) :
             AboveThreshold(alert_log[i].ai_failure_count,
                            alert_log[i].total_processed, threshold_pct))

(***************************************************************************)
(* C19.  _validate_records_against_html returns, in the order of its       *)
(* input, exactly the records whose name and department the page attests;  *)
(* in each of them a position, specialty, licence or others field that the *)
(* page does not attest is empty, and every other field, attested          *)
(* secondary fields included, is as in the input.                          *)
(***************************************************************************)
SecondaryFields == {"position", "specialty", "licence", "others"}

ParsedRecords == DoctorInfoParseFrom(ex_response, 1, <<>>)

Attested(value) == validate_field_in_html(value, ex_html)

KeptIndices ==
    {i \in 1..Len(ParsedRecords) :
        Attested(ParsedRecords[i].name) /\ Attested(ParsedRecords[i].department)}

C20_NoDuplicateSignatureInFacility ==
    (fin_pc = "saved") =>
       \A i, j \in 1..Len(fin_saved) :
          (/\ i < j
           /\ fin_saved[i].fac_id_unif = fin_saved[j].fac_id_unif)
             => create_record_signature(fin_saved[i])
                   # create_record_signature(fin_saved[j])

(***************************************************************************)
(* C21.  Every record and every FailureRecord returned for an item carries *)
(* the fac_id_unif of the item, which is not empty and is an id of the     *)
(* shard, whatever id the rows of the AI response name.                    *)
(***************************************************************************)
C21_RecordsCarryItemId ==
    (og_pc = "returned") =>
       /\ og_item.fac_id_unif # ""
       /\ \A n \in 1..Len(og_records) :
             /\ og_records[n].fac_id_unif = og_item.fac_id_unif
             /\ og_records[n].fac_id_unif \in ShardIds
       /\ \A n \in 1..Len(og_failures) :
             /\ og_failures[n].fac_id_unif = og_item.fac_id_unif
             /\ og_failures[n].fac_id_unif \in ShardIds

\* an outpatient record is returned for a row that names another facility
C21_Witness ==
    /\ og_job = "outpatient"
    /\ og_pc = "returned"
    /\ og_records # <<>>
    /\ og_response[1].department # <<>>
    /\ og_response[1].fac_id_unif = "f9"
    /\ og_records[1].fac_id_unif = og_item.fac_id_unif

(***************************************************************************)
(* C22.  Every failure a run has recorded has for its reason one of the    *)
(* codes of FailureReasonClassifier: CONNECTION_ERROR, TIMEOUT_ERROR,      *)
(* API_RATE_LIMIT, API_ERROR, EMPTY_RESPONSE, PARSING_ERROR or             *)
(* UNKNOWN_ERROR.                                                          *)
(***************************************************************************)
C22_FailuresCarryReasonCode ==
    \A key \in DOMAIN failed_items : failed_items[key] \in ReasonCodes

(***************************************************************************)
(* C23.  Each item of a batch is counted once in the run statistics and    *)
(* contributes its records at most once, also in a batch that              *)
(* process_data_async processes item by item after a batch-level           *)
(* exception: during that fallback and between two batches,                *)
(* total_processed is the number of items handled so far, every one of     *)
(* them is a success or a failure, and all_records holds no more records   *)
(* than the handled items returned.                                        *)
(***************************************************************************)
HandledInFallback ==
    IF run_pc = "fallback" THEN {i \in 1..N : task_pc[i] = "done"} ELSE {}

ReturnedRecords ==
    Cardinality({k \in 1..Len(outcomes) : outcomes[k] = "list"})
       + Cardinality({i \in HandledInFallback :
                         /\ task_result[i].kind = "list"
                         /\ task_result[i].records # <<>>})

C23_ItemsCountedOnce ==
    (run_pc \notin {"idle", "batch"}) =>
       /\ stats.total_processed = Len(outcomes) + Cardinality(HandledInFallback)
       /\ stats.successful + stats.failed = stats.total_processed
       /\ stats.total_processed <= Len(task_df)
       /\ stats.records_extracted = Len(all_records)
       /\ Len(all_records) <= ReturnedRecords

\* a run whose batches all fell back to item-by-item processing has ended:
\* a row failed, the others returned a record each
C23_Witness ==
    /\ run_pc = "exit"
    /\ exit_code = 0
    /\ max_concurrent_requests < 0
    /\ Len(task_df) = RunBatchSize + 1
    /\ outcomes[1] = "exception"
    /\ stats.total_processed = Len(task_df)
    /\ stats.failed = 1
    /\ Len(all_records) = RunBatchSize

(***************************************************************************)
(* C24.  _call_ai_api returns only a response, and only when the call of   *)
(* its thread ended without an error before ai_timeout had passed; and     *)
(* what a call has returned or raised is not changed by anything that      *)
(* happens later, the end of its own abandoned thread or of the thread of  *)
(* another call.                                                           *)
(***************************************************************************)
C24_ResponseOnlyInTimeAndFinal ==
    /\ [](\A c \in Calls :
             ca_outcome[c].kind = "returned" =>
                /\ ca_outcome[c].value = "text"
                /\ ca_service[c] = "response"
                /\ ca_in_time[c])
    /\ [][\A c \in Calls :
             ca_outcome[c] # Pending => ca_outcome'[c] = ca_outcome[c]]_vars


\* C25: in every state of a facility's crawl every URL of visited_urls and
\* of found_urls has the domain of the seed URL (extract_domain, the
\* lower-cased netloc), and found_urls is a subset of visited_urls
C25_VisitedAndFoundInSeedDomain ==
    /\ \A u \in visited_urls \cup found_urls :
          extract_domain(u) = extract_domain(base_url)
    /\ found_urls \subseteq visited_urls

\* a finished crawl that found a page, after a visited page linked to a page
\* of another domain that exists
C25_Witness ==
    /\ cr_pc = "done"
    /\ found_urls # {}
    /\ \E u \in visited_urls :
          \E h \in cr_site[u].links :
             /\ h.kind = "absolute"
             /\ Lower(h.netloc) # extract_domain(base_url)
             /\ cr_site[urljoin(u, h)].exists


\* C26: the crawl never enqueues and never fetches a URL whose lower-cased
\* form ends with one of the file extensions .pdf, .doc, .docx, .xls, .xlsx,
\* .zip, .jpg, .jpeg, .png, .gif
C26_NoFileExtensionQueuedOrFetched ==
    /\ \A i \in 1..Len(url_queue) : ~EndsWithFileExtension(url_queue[i][1])
    /\ \A f \in fetch_log : ~EndsWithFileExtension(f[1])


\* C28: within one facility's crawl fetch_html_async is called at most once
\* for each URL: no URL is in the log of the fetches at two depths
C28_FetchedAtMostOncePerUrl ==
    \A f \in fetch_log : \A g \in fetch_log : f[1] = g[1] => f = g

\* C27: in a record _create_record_from_fields returns for doctor_info, the
\* position and the name are exchanged when the name column matches a
\* position pattern, and both are as received when neither column matches a
\* position pattern
C27_ExchangedOnlyOnTitleEvidence ==
    (rf_pc = "done" /\ rf_result.kind = "record") =>
       /\ MatchesPositionPattern(rf_fields[4]) =>
             /\ rf_result.position = rf_fields[4]
             /\ rf_result.name = rf_fields[3]
       /\ (~MatchesPositionPattern(rf_fields[3])
              /\ ~MatchesPositionPattern(rf_fields[4])) =>
             /\ rf_result.position = rf_fields[3]
             /\ rf_result.name = rf_fields[4]


\* C29: the validation_status of the record _validation_result_to_dict makes
\* of the decoder's result is one of VALID, PARTIAL, INVALID and NOTFOUND,
\* whatever the response text and whichever stage produced the result
C29_StatusIsOneOfFour ==
    dec_pc = "done" =>
       ValidationRecord(BatchItem(1, EmptyUrl),
                        dec_result.validation_status).validation_status
          \in {<<w>> : w \in StatusWords}


\* C30: in the validation job valid_count + partial_count + invalid_count
\* + notfound_count equals total_processed after any sequence of processed
\* items
C30_StatusCountsSumToTotal ==
    job_type = "doctor_info_validation" =>
       validation_stats.valid_count + validation_stats.partial_count
          + validation_stats.invalid_count + validation_stats.notfound_count
          = validation_stats.total_processed

====
